---- MODULE Spec2Model ----
(***************************************************************************)
(* Last-man-standing pool (lms_automation/app.py): the round / pick        *)
(* elimination state machine.  The relational store is the state; every    *)
(* Flask handler is one action.  In Spec the handlers run one after the    *)
(* other; in SpecConc the two pick-submission handlers are split between   *)
(* their checks and their insert, so that concurrent requests interleave   *)
(* as they do against the store.                                           *)
(***************************************************************************)
EXTENDS Integers, Sequences, FiniteSets, TLC

\* ------------------------------------------------------------------ bounds
\* The store holds at most MaxRows players, rounds and fixtures together in
\* Spec, where the handlers' checks bound the picks; in SpecConc it holds at
\* most ConcRows rows, picks included.  MaxReqs pick submissions
\* are in flight at once.
MaxRows == 3
ConcRows == 5
MaxReqs == 2
\* Scores of the fixtures the pure functions are applied to run from 0 to MaxScore.
MaxScore == 2
\* SpecQueue holds at most MaxQueueRows players, rounds and jobs together and
\* claims a job at most MaxAttempts times; SpecQueueConc holds at most
\* ConcJobs jobs.
MaxQueueRows == 4
MaxAttempts == 1
ConcJobs == 4

\* ------------------------------------------------------------- data values
\* A nullable column holds NULL (Python None) or Some(v).
NULL == <<>>
Some(v) == <<v>>
Val(o) == o[1]

\* Strings are sequences of one-character strings, so that strip() and
\* lower() are computed and not assumed.
Ars == <<"A", "r", "s">>
ArsLow == <<" ", "a", "r", "s">>
Che == <<"C", "h", "e">>
Liv == <<"L", "i", "v">>
EmptyStr == <<>>

LowerChar(c) ==
    CASE c = "A" -> "a"
      [] c = "C" -> "c"
      [] c = "L" -> "l"
      [] OTHER -> c

\* str.strip() takes off blanks, tabs and line ends.
IsSpace(c) == c \in {" ", "\t", "\n", "\r"}

RECURSIVE LStrip(_)
LStrip(s) == IF s # <<>> /\ IsSpace(Head(s)) THEN LStrip(Tail(s)) ELSE s

RECURSIVE RStrip(_)
RStrip(s) ==
    IF s # <<>> /\ IsSpace(s[Len(s)]) THEN RStrip(SubSeq(s, 1, Len(s) - 1)) ELSE s

Strip(s) == RStrip(LStrip(s))

Lower(s) == [i \in 1..Len(s) |-> LowerChar(s[i])]

\* app.py normalize_team: (name or '').strip().lower()
normalize_team(name) == Lower(Strip(name))

FinalStatuses == {"completed", "FT", "AET", "PEN"}
AbandonedStatuses == {"PST", "P", "postponed", "cancelled"}

\* Mutant of fixture_decision: the status is not looked at.
fixture_decision_nostatus(fix) ==
    IF fix.home_score = NULL \/ fix.away_score = NULL THEN NULL
    ELSE IF Val(fix.home_score) > Val(fix.away_score) THEN Some("HOME")
    ELSE IF Val(fix.away_score) > Val(fix.home_score) THEN Some("AWAY")
    ELSE Some("DRAW")

\* app.py fixture_decision: "HOME" | "AWAY" | "DRAW", or NULL while undecided.
fixture_decision(fix) ==
    IF fix.status \notin FinalStatuses THEN NULL
    ELSE IF fix.home_score = NULL \/ fix.away_score = NULL THEN NULL
    ELSE IF Val(fix.home_score) > Val(fix.away_score) THEN Some("HOME")
    ELSE IF Val(fix.away_score) > Val(fix.home_score) THEN Some("AWAY")
    ELSE Some("DRAW")

\* Mutant of pick_outcome_for_fixture: the names are compared as written.
pick_outcome_for_fixture_raw(pick, fix) ==
    LET result == fixture_decision(fix)
        team == pick.team_picked
    IN  IF result = NULL THEN "PENDING"
        ELSE IF result = Some("HOME") /\ team = fix.home_team THEN "WIN"
        ELSE IF result = Some("AWAY") /\ team = fix.away_team THEN "WIN"
        ELSE "LOSE"

\* Mutant of pick_outcome_for_fixture: an undecided fixture loses the pick.
pick_outcome_for_fixture_pendingloses(pick, fix) ==
    LET result == fixture_decision(fix)
        team == normalize_team(pick.team_picked)
    IN  IF result = NULL THEN "LOSE"
        ELSE IF result = Some("HOME") /\ team = normalize_team(fix.home_team) THEN "WIN"
        ELSE IF result = Some("AWAY") /\ team = normalize_team(fix.away_team) THEN "WIN"
        ELSE "LOSE"

\* Mutant of pick_outcome_for_fixture: a draw counts as a win.
pick_outcome_for_fixture_drawwins(pick, fix) ==
    LET result == fixture_decision(fix)
        team == normalize_team(pick.team_picked)
    IN  IF result = NULL THEN "PENDING"
        ELSE IF result = Some("HOME") /\ team = normalize_team(fix.home_team) THEN "WIN"
        ELSE IF result = Some("AWAY") /\ team = normalize_team(fix.away_team) THEN "WIN"
        ELSE IF result = Some("DRAW") THEN "WIN"
        ELSE "LOSE"

\* app.py pick_outcome_for_fixture: "WIN" | "LOSE" | "PENDING".
pick_outcome_for_fixture(pick, fix) ==
    LET result == fixture_decision(fix)
        team == normalize_team(pick.team_picked)
    IN  IF result = NULL THEN "PENDING"
        ELSE IF result = Some("HOME") /\ team = normalize_team(fix.home_team) THEN "WIN"
        ELSE IF result = Some("AWAY") /\ team = normalize_team(fix.away_team) THEN "WIN"
        ELSE "LOSE"

\* ------------------------------------------------------------------- state
VARIABLES
    players,    \* Player table: id -> [name, status, unreachable]
    rounds,     \* Round table: id (index) -> [round_number, status]
    fixtures,   \* Fixture table: id (index) -> row
    picks,      \* Pick table: id (index) -> row
    reqs,       \* requests between two database round trips, and the workers
    last,       \* the handler step taken last and what it did or answered
    queue,      \* SendQueue table: id (index) -> [player_id, status, attempts, last_error]
    updated_at  \* SendQueue.updated_at: id (index) -> the rank of the row's update time

vars == <<players, rounds, fixtures, picks, reqs, last, queue, updated_at>>

\* The number of player, round and fixture rows in the store.
Rows == Cardinality(DOMAIN players) + Len(rounds) + Len(fixtures)

Idle == [pc |-> "idle"]

\* What a handler step did or answered: the handler, the result of the step,
\* and two numbers (the round and the player of a pick submission; the round
\* and a count for the processing of a round).  A handler that builds its
\* message after its commit records the commit here and answers in flash.
Answer(op, result, arg, n) == [op |-> op, result |-> result, arg |-> arg, n |-> n]

\* The slots of reqs no request is running in; a request that goes on after
\* a commit, or waits for an answer, takes the first of them.
FreeSlots == {i \in 1..MaxReqs : reqs[i].pc = "idle"}
FreeSlot == CHOOSE i \in FreeSlots : \A j \in FreeSlots : i <= j

\* A request between its commit and the flash() call that follows it.  The
\* commit has expired the rows of the session, so the message is built from
\* rows read again: player and round are the rows it names (NULL for none),
\* caught tells whether the call stands inside the handler's try block.
Flash(op, player, round, caught, arg, n) ==
    [pc |-> "flash", op |-> op, player |-> player, round |-> round,
     caught |-> caught, arg |-> arg, n |-> n]

\* flask.flash after a commit, and the redirect that ends the request: the
\* rows the message names are read as the store holds them now.  A row that
\* is gone raises ObjectDeletedError, which a handler with a try block turns
\* into its error message and any other into the answer 500; what was
\* committed stays.
flash(i) ==
    /\ reqs[i].pc = "flash"
    /\ LET gone == \/ reqs[i].player # NULL /\ Val(reqs[i].player) \notin DOMAIN players
                   \/ reqs[i].round # NULL /\ Val(reqs[i].round) \notin DOMAIN rounds
       IN  last' = Answer(reqs[i].op,
                          IF ~gone THEN "success"
                          ELSE IF reqs[i].caught THEN "error" ELSE "500",
                          reqs[i].arg, reqs[i].n)
    /\ reqs' = [reqs EXCEPT ![i] = Idle]
    /\ UNCHANGED <<players, rounds, fixtures, picks, queue, updated_at>>

Init ==
    /\ players = <<>>
    /\ rounds = <<>>
    /\ fixtures = <<>>
    /\ picks = <<>>
    /\ reqs = [i \in 1..MaxReqs |-> Idle]
    /\ last = Answer("init", "ok", 0, 0)
    /\ queue = <<>>
    /\ updated_at = <<>>

\* ------------------------------------------------------------------ players
SetMax(S) == CHOOSE x \in S : \A y \in S : y <= x

\* Player.id is an integer primary key without AUTOINCREMENT: an inserted row
\* takes the largest id of the table plus one, so the id of a deleted last
\* row is given out again and an id in the middle stays free.
NewId(tbl) == IF DOMAIN tbl = {} THEN 1 ELSE SetMax(DOMAIN tbl) + 1
Inserted(tbl, row) ==
    [p \in DOMAIN tbl \cup {NewId(tbl)} |-> IF p \in DOMAIN tbl THEN tbl[p] ELSE row]

\* Player(name=...): status 'active' and unreachable False by default.
Player(name) == [name |-> name, status |-> "active", unreachable |-> FALSE]

\* Player.query.filter_by(name=player_name).first()
existing_player(pl, player_name) == \E p \in DOMAIN pl : pl[p].name = player_name

\* app.py register_player (POST): a name already taken is refused, else a new
\* Player row is inserted.
register_player(player_name) ==
    IF existing_player(players, player_name)
    THEN /\ last' = Answer("register_player", "exists", 0, 0)
         /\ UNCHANGED <<players, rounds, fixtures, picks, reqs, queue, updated_at>>
    ELSE /\ players' = Inserted(players, Player(player_name))
         /\ last' = Answer("register_player", "ok", NewId(players), 0)
         /\ UNCHANGED <<rounds, fixtures, picks, reqs, queue, updated_at>>

\* app.py edit_player (POST) up to its commit: the name of the form, the
\* player's own when the form has none (NULL), is written; a name another
\* player has breaks the unique constraint at the commit, which the handler
\* does not catch.  The message of line 280 reads the player again.
edit_player(player_id, name) ==
    IF player_id \notin DOMAIN players
    THEN /\ last' = Answer("edit_player", "404", player_id, 0)
         /\ UNCHANGED <<players, rounds, fixtures, picks, reqs, queue, updated_at>>
    ELSE LET new_name == IF name = NULL THEN players[player_id].name ELSE Val(name) IN
         IF \E p \in DOMAIN players \ {player_id} : players[p].name = new_name
         THEN /\ last' = Answer("edit_player", "500", player_id, 0)
              /\ UNCHANGED <<players, rounds, fixtures, picks, reqs, queue, updated_at>>
         ELSE /\ FreeSlots # {}
              /\ players' = [players EXCEPT ![player_id].name = new_name]
              /\ reqs' = [reqs EXCEPT ![FreeSlot] =
                             Flash("edit_player", Some(player_id), NULL, FALSE, player_id, 0)]
              /\ last' = Answer("edit_player", "ok", player_id, 0)
              /\ UNCHANGED <<rounds, fixtures, picks, queue, updated_at>>

RECURSIVE Split(_, _)
\* str.split(sep) for a separator of one character.
Split(text, sep) ==
    IF \A i \in 1..Len(text) : text[i] # sep THEN <<text>>
    ELSE LET i == CHOOSE k \in 1..Len(text) :
                     text[k] = sep /\ \A m \in 1..(k - 1) : text[m] # sep
         IN  <<SubSeq(text, 1, i - 1)>> \o Split(SubSeq(text, i + 1, Len(text)), sep)

\* admin_bulk_register_players 490: the lines of the form field, stripped, the
\* empty ones left out.
player_names(player_names_raw) ==
    LET lines == Split(player_names_raw, "\n")
    IN  SelectSeq([i \in 1..Len(lines) |-> Strip(lines[i])], LAMBDA name : name # <<>>)

\* The loop of admin_bulk_register_players: the look-up of a name flushes the
\* rows added so far, so a name that comes twice is added once.
RECURSIVE BulkRegistered(_, _)
BulkRegistered(pl, names) ==
    IF names = <<>> THEN pl
    ELSE IF existing_player(pl, Head(names)) THEN BulkRegistered(pl, Tail(names))
    ELSE BulkRegistered(Inserted(pl, Player(Head(names))), Tail(names))

\* app.py admin_bulk_register_players (POST): every new name of the list is
\* registered in one commit; the answer counts the registered and the skipped.
admin_bulk_register_players(player_names_raw) ==
    LET names == player_names(player_names_raw)
        after == BulkRegistered(players, names)
        registered_count == Cardinality(DOMAIN after) - Cardinality(DOMAIN players)
    IN  /\ players' = after
        /\ last' = Answer("admin_bulk_register_players", "ok", registered_count,
                          Len(names) - registered_count)
        /\ UNCHANGED <<rounds, fixtures, picks, reqs, queue, updated_at>>

\* ------------------------------------------------------ rounds and fixtures
Digits == <<"1", "2", "3", "4", "5", "6", "7", "8", "9">>

\* str(n) for the one-digit numbers the model uses.
Str(n) == <<Digits[n]>>

\* str.isdigit(): non-empty and every character a digit.
IsDigit(s) == s # <<>> /\ \A i \in 1..Len(s) : \E d \in 1..Len(Digits) : s[i] = Digits[d]

RECURSIVE RemoveSpaces(_)
RemoveSpaces(s) ==
    IF s = <<>> THEN <<>>
    ELSE IF Head(s) = " " THEN RemoveSpaces(Tail(s))
    ELSE <<Head(s)>> \o RemoveSpaces(Tail(s))

\* admin_manual_add_fixture: f"MANUAL_{round_number}_{home}_{away}_{datetime}",
\* the blanks of the team names removed; the kick-off time is one fixed input.
ManualEventId(round_number, home, away) ==
    <<"M", "_">> \o Str(round_number) \o <<"_">> \o RemoveSpaces(home)
        \o <<"_">> \o RemoveSpaces(away)

\* The teams of the matches the sports-data API knows, by API match id.
ApiEvents == {1}
ApiHome(e) == IF e = 1 THEN Che ELSE Ars
ApiAway(e) == IF e = 1 THEN Liv ELSE Che

RoundIds == DOMAIN rounds
FixtureIds == DOMAIN fixtures
PlayerIds == DOMAIN players
PickIds == DOMAIN picks

\* rnd.fixtures and rnd.picks: the rows whose round_id is the round, by id.
RoundFixtures(r) == {f \in FixtureIds : fixtures[f].round_id = Some(r)}
RoundPicks(r) == {i \in PickIds : picks[i].round_id = r}

\* app.py admin_create_round: refuses a round_number already in use.
admin_create_round(round_number) ==
    IF \E r \in RoundIds : rounds[r].round_number = round_number
    THEN /\ last' = Answer("admin_create_round", "exists", 0, 0)
         /\ UNCHANGED <<players, rounds, fixtures, picks, reqs, queue, updated_at>>
    ELSE /\ rounds' = Append(rounds, [round_number |-> round_number, status |-> "open"])
         /\ last' = Answer("admin_create_round", "ok", Len(rounds) + 1, 0)
         /\ UNCHANGED <<players, fixtures, picks, reqs, queue, updated_at>>

\* app.py admin_manual_add_fixture up to its commit (line 547): a 'scheduled'
\* fixture in an existing round.  The message of line 548 reads the round
\* again, inside the try block.
admin_manual_add_fixture(round_id, home, away) ==
    IF round_id \notin RoundIds
    THEN /\ last' = Answer("admin_manual_add_fixture", "invalid_round", round_id, 0)
         /\ UNCHANGED <<players, rounds, fixtures, picks, reqs, queue, updated_at>>
    ELSE LET event_id == ManualEventId(rounds[round_id].round_number, home, away) IN
         IF \E f \in FixtureIds : fixtures[f].event_id = event_id
         THEN /\ last' = Answer("admin_manual_add_fixture", "exists", round_id, 0)
              /\ UNCHANGED <<players, rounds, fixtures, picks, reqs, queue, updated_at>>
         ELSE /\ FreeSlots # {}
              /\ fixtures' = Append(fixtures,
                     [round_id |-> Some(round_id), event_id |-> event_id,
                      home_team |-> home, away_team |-> away,
                      home_score |-> NULL, away_score |-> NULL,
                      status |-> "scheduled"])
              /\ reqs' = [reqs EXCEPT ![FreeSlot] =
                             Flash("admin_manual_add_fixture", NULL, Some(round_id), TRUE,
                                   round_id, 0)]
              /\ last' = Answer("admin_manual_add_fixture", "ok", round_id, 0)
              /\ UNCHANGED <<players, rounds, picks, queue, updated_at>>

\* One match as the API reports it: goals and status, each possibly missing.
ApiMatch(home, away, short) == [home |-> home, away |-> away, short |-> short]

\* app.py admin_load_fixtures, one match of the season list after the other:
\* a new match becomes an unassigned fixture, a known one is overwritten.
RECURSIVE LoadFixtures(_, _, _)
LoadFixtures(fx, data, todo) ==
    IF todo = {} THEN fx
    ELSE LET e == CHOOSE k \in todo : \A j \in todo : k <= j
             rest == todo \ {e}
         IN  IF data[e] = NULL THEN LoadFixtures(fx, data, rest)
             ELSE LET m == Val(data[e])
                      known == {f \in DOMAIN fx : fx[f].event_id = Str(e)}
                  IN  IF known = {}
                      THEN LoadFixtures(Append(fx,
                               [round_id |-> NULL, event_id |-> Str(e),
                                home_team |-> ApiHome(e), away_team |-> ApiAway(e),
                                home_score |-> m.home, away_score |-> m.away,
                                status |-> Val(m.short)]), data, rest)
                      ELSE LET f == CHOOSE k \in known : \A j \in known : k <= j IN
                           LoadFixtures([fx EXCEPT ![f].home_score = m.home,
                                                   ![f].away_score = m.away,
                                                   ![f].status = Val(m.short)], data, rest)

\* app.py admin_load_fixtures; the season list is not empty and every match
\* of it carries a status.
admin_load_fixtures(data) ==
    /\ \E e \in ApiEvents : data[e] # NULL
    /\ \A e \in ApiEvents : data[e] # NULL => Val(data[e]).short # NULL
    /\ fixtures' = LoadFixtures(fixtures, data, ApiEvents)
    /\ last' = Answer("admin_load_fixtures", "ok", 0, Len(fixtures') - Len(fixtures))
    /\ UNCHANGED <<players, rounds, picks, reqs, queue, updated_at>>

\* app.py bulk_assign_fixtures up to its commit (line 572): the selected
\* fixtures that are still unassigned.  The message of line 573 reads the
\* round again.
bulk_assign_fixtures(round_id, selected) ==
    IF round_id \notin RoundIds
    THEN /\ last' = Answer("bulk_assign_fixtures", "404", round_id, 0)
         /\ UNCHANGED <<players, rounds, fixtures, picks, reqs, queue, updated_at>>
    ELSE LET hit == {f \in selected : f \in FixtureIds /\ fixtures[f].round_id = NULL} IN
         /\ FreeSlots # {}
         /\ fixtures' = [f \in FixtureIds |->
                IF f \in hit THEN [fixtures[f] EXCEPT !.round_id = Some(round_id)]
                ELSE fixtures[f]]
         /\ reqs' = [reqs EXCEPT ![FreeSlot] =
                        Flash("bulk_assign_fixtures", NULL, Some(round_id), FALSE,
                              round_id, Cardinality(hit))]
         /\ last' = Answer("bulk_assign_fixtures", "ok", round_id, Cardinality(hit))
         /\ UNCHANGED <<players, rounds, picks, queue, updated_at>>

\* app.py admin_create_next_round, the loop of lines 1251-1256 over the posted
\* values in order (an entry is the id a value reads as, NULL for a value
\* int() refuses): a fixture that exists and is unassigned is given to the new
\* round.  The round was committed before, so that the first use of
\* new_round.id reads the row again and fails if the row is gone.
RECURSIVE AssignSelected(_, _, _, _)
AssignSelected(selected, fx, new_round, count) ==
    IF selected = <<>> THEN [stop |-> "end", fixtures |-> fx, count |-> count]
    ELSE IF Head(selected) = NULL
    THEN [stop |-> "ValueError", fixtures |-> fx, count |-> count]
    ELSE LET fixture_id == Val(Head(selected)) IN
         IF fixture_id \in DOMAIN fx /\ fx[fixture_id].round_id = NULL
         THEN IF new_round \notin RoundIds
              THEN [stop |-> "ObjectDeletedError", fixtures |-> fx, count |-> count]
              ELSE AssignSelected(Tail(selected),
                       [fx EXCEPT ![fixture_id].round_id = Some(new_round)],
                       new_round, count + 1)
         ELSE AssignSelected(Tail(selected), fx, new_round, count)

\* app.py admin_create_next_round up to its first commit (line 1248): a form
\* without a selected fixture or with the start date after the end date is
\* refused; else the round is inserted as posted (no look-up of the round
\* number, no look at the open rounds) and committed, and the request goes on
\* from slot FreeSlot.
admin_create_next_round(game_round_number, selected, dates_ok) ==
    IF selected = <<>>
    THEN /\ last' = Answer("admin_create_next_round", "no_fixtures", 0, 0)
         /\ UNCHANGED <<players, rounds, fixtures, picks, reqs, queue, updated_at>>
    ELSE IF ~dates_ok
    THEN /\ last' = Answer("admin_create_next_round", "bad_dates", 0, 0)
         /\ UNCHANGED <<players, rounds, fixtures, picks, reqs, queue, updated_at>>
    ELSE LET new_round == Len(rounds) + 1 IN
         /\ FreeSlots # {}
         /\ rounds' = Append(rounds, [round_number |-> game_round_number,
                                      status |-> "open"])
         /\ reqs' = [reqs EXCEPT ![FreeSlot] =
                        [pc |-> "next_round", new_round |-> new_round,
                         selected |-> selected]]
         /\ last' = Answer("admin_create_next_round", "committed", new_round, 0)
         /\ UNCHANGED <<players, fixtures, picks, queue, updated_at>>

\* admin_create_next_round from its first commit to its answer (lines
\* 1250-1269): the fixtures are assigned and committed (1258).  A value that
\* is no number raises ValueError, a round row that is gone raises
\* ObjectDeletedError: both are caught, no fixture is assigned, and the round
\* committed at 1248 stays as it is.
admin_create_next_round_assign(i) ==
    /\ reqs[i].pc = "next_round"
    /\ LET walk == AssignSelected(reqs[i].selected, fixtures, reqs[i].new_round, 0) IN
       /\ fixtures' = IF walk.stop = "end" THEN walk.fixtures ELSE fixtures
       /\ last' = Answer("admin_create_next_round",
                         IF walk.stop = "end" THEN "ok" ELSE walk.stop,
                         reqs[i].new_round,
                         IF walk.stop = "end" THEN walk.count ELSE 0)
    /\ reqs' = [reqs EXCEPT ![i] = Idle]
    /\ UNCHANGED <<players, rounds, picks, queue, updated_at>>

\* app.py admin_update_results, for a form that posts one fixture: the scores as
\* typed ('' is None) and the status, '' standing for 'scheduled'.
admin_update_results(round_id, fid, hs, as, st) ==
    IF round_id \notin RoundIds
    THEN /\ last' = Answer("admin_update_results", "404", round_id, 0)
         /\ UNCHANGED <<players, rounds, fixtures, picks, reqs, queue, updated_at>>
    ELSE /\ fid \in FixtureIds
         /\ fixtures' = [fixtures EXCEPT ![fid].home_score = hs,
                                         ![fid].away_score = as,
                                         ![fid].status = IF st = "" THEN "scheduled" ELSE st]
         /\ last' = Answer("admin_update_results", "ok", round_id, 1)
         /\ UNCHANGED <<players, rounds, picks, reqs, queue, updated_at>>

\* A request waits for the sports-data API (get_fixtures_by_ids) with the
\* Fixture rows of the round as its session loaded them.
AtApi(op, round_id) ==
    [pc |-> "api", op |-> op, round_id |-> round_id,
     loaded |-> [f \in RoundFixtures(round_id) |-> fixtures[f]]]

\* The loop over the loaded fixtures, for one of them: a fixture with a numeric
\* event_id takes every field the API reports.
ApiAssigned(fix, data) ==
    IF IsDigit(fix.event_id) /\ \E e \in ApiEvents : Str(e) = fix.event_id /\ data[e] # NULL
    THEN LET e == CHOOSE k \in ApiEvents : Str(k) = fix.event_id
             m == Val(data[e])
         IN  [fix EXCEPT
                !.home_score = IF m.home # NULL THEN m.home ELSE @,
                !.away_score = IF m.away # NULL THEN m.away ELSE @,
                !.status = IF m.short # NULL THEN Val(m.short) ELSE @]
    ELSE fix

\* db.session.commit() after the loop: for each loaded row the session writes
\* the columns whose value is no longer the one loaded, and only those; the
\* other columns of the stored row stay as they are now.
Flushed(fx, loaded, data) ==
    [f \in DOMAIN fx |->
        IF f \notin DOMAIN loaded THEN fx[f]
        ELSE LET was == loaded[f]
                 new == ApiAssigned(was, data)
             IN  [fx[f] EXCEPT
                    !.home_score = IF new.home_score # was.home_score
                                   THEN new.home_score ELSE @,
                    !.away_score = IF new.away_score # was.away_score
                                   THEN new.away_score ELSE @,
                    !.status = IF new.status # was.status THEN new.status ELSE @]]

\* The UPDATE of a changed row finds no row: the row was deleted while the
\* request waited, and the commit raises StaleDataError.
Stale(fx, loaded, data) ==
    \E f \in DOMAIN loaded : f \notin DOMAIN fx /\ ApiAssigned(loaded[f], data) # loaded[f]

\* app.py admin_auto_update_results up to its call of the API (606-614).
admin_auto_update_results_read(round_id) ==
    IF round_id \notin RoundIds
    THEN /\ last' = Answer("admin_auto_update_results", "404", round_id, 0)
         /\ UNCHANGED <<players, rounds, fixtures, picks, reqs, queue, updated_at>>
    ELSE IF RoundFixtures(round_id) = {}
    THEN /\ last' = Answer("admin_auto_update_results", "no_event_ids", round_id, 0)
         /\ UNCHANGED <<players, rounds, fixtures, picks, reqs, queue, updated_at>>
    ELSE /\ FreeSlots # {}
         /\ reqs' = [reqs EXCEPT ![FreeSlot] = AtApi("admin_auto_update_results", round_id)]
         /\ last' = Answer("admin_auto_update_results", "api", round_id, 0)
         /\ UNCHANGED <<players, rounds, fixtures, picks, queue, updated_at>>

\* app.py admin_auto_update_results from the answer of the API to its commit
\* (615-639).
admin_auto_update_results_commit(i, data) ==
    /\ reqs[i].pc = "api"
    /\ reqs[i].op = "admin_auto_update_results"
    /\ reqs' = [reqs EXCEPT ![i] = Idle]
    /\ IF Stale(fixtures, reqs[i].loaded, data)
       THEN /\ last' = Answer("admin_auto_update_results", "500", reqs[i].round_id, 0)
            /\ UNCHANGED fixtures
       ELSE /\ fixtures' = Flushed(fixtures, reqs[i].loaded, data)
            /\ last' = Answer("admin_auto_update_results", "ok", reqs[i].round_id, 0)
    /\ UNCHANGED <<players, rounds, picks, queue, updated_at>>

\* ------------------------------------------------------------ closing a round

\* fixtures_by_team.get(team): the dict is built from the home teams and then
\* updated from the away teams, so the last fixture naming the team as away
\* wins, else the last naming it as home; NULL when no fixture names it.
fixtures_by_team(fx, r, team) ==
    LET mine == {f \in DOMAIN fx : fx[f].round_id = Some(r)}
        asAway == {f \in mine : normalize_team(fx[f].away_team) = team}
        asHome == {f \in mine : normalize_team(fx[f].home_team) = team}
    IN  IF asAway # {} THEN Some(SetMax(asAway))
        ELSE IF asHome # {} THEN Some(SetMax(asHome))
        ELSE NULL

\* Mutant of Undecided: only fixtures still 'scheduled' block processing.
Undecided_scheduledonly(fx, r) ==
    {f \in DOMAIN fx : /\ fx[f].round_id = Some(r)
                       /\ fixture_decision(fx[f]) = NULL
                       /\ fx[f].status = "scheduled"}

\* The fixtures that block processing: undecided and not abandoned.
Undecided(fx, r) ==
    {f \in DOMAIN fx : /\ fx[f].round_id = Some(r)
                       /\ fixture_decision(fx[f]) = NULL
                       /\ fx[f].status \notin AbandonedStatuses}

\* Mutant of JudgeOutcome: an already judged pick is judged again.
JudgeOutcome_rejudge(fx, pk, r, i) ==
    IF pk[i].round_id # r THEN "SKIP"
    ELSE LET fix == fixtures_by_team(fx, r, normalize_team(pk[i].team_picked)) IN
         IF fix = NULL THEN "SKIP"
         ELSE pick_outcome_for_fixture(pk[i], fx[Val(fix)])

\* What the judging loop does with pick i: "SKIP" (another round's pick, an
\* already judged one, or no fixture for its team), else the pick's outcome.
JudgeOutcome(fx, pk, r, i) ==
    IF pk[i].round_id # r \/ pk[i].is_winner # NULL THEN "SKIP"
    ELSE LET fix == fixtures_by_team(fx, r, normalize_team(pk[i].team_picked)) IN
         IF fix = NULL THEN "SKIP"
         ELSE pick_outcome_for_fixture(pk[i], fx[Val(fix)])

\* The picks after the judging loop.
JudgedPicks(fx, pk, r) ==
    [i \in DOMAIN pk |->
        LET outcome == JudgeOutcome(fx, pk, r, i) IN
        IF outcome = "WIN" THEN [pk[i] EXCEPT !.is_winner = Some(TRUE)]
        ELSE IF outcome = "LOSE"
             THEN [pk[i] EXCEPT !.is_winner = Some(FALSE), !.is_eliminated = TRUE]
        ELSE pk[i]]

Losers(fx, pk, r) == {i \in DOMAIN pk : JudgeOutcome(fx, pk, r, i) = "LOSE"}

\* Mutant of JudgedPlayers: a player without a pick in the round is out too.
JudgedPlayers_nopick(fx, pk, pl, r) ==
    [p \in DOMAIN pl |->
        IF \/ \E i \in Losers(fx, pk, r) : pk[i].player_id = p
           \/ ~\E i \in DOMAIN pk : pk[i].player_id = p /\ pk[i].round_id = r
        THEN [pl[p] EXCEPT !.status = "eliminated"]
        ELSE pl[p]]

\* The players after the judging loop: the owner of a pick judged LOSE is out.
JudgedPlayers(fx, pk, pl, r) ==
    [p \in DOMAIN pl |->
        IF \E i \in Losers(fx, pk, r) : pk[i].player_id = p
        THEN [pl[p] EXCEPT !.status = "eliminated"]
        ELSE pl[p]]

\* The request leaves slot i, if it runs in one (i is 0 if it does not).
Left(i) == IF i = 0 THEN reqs ELSE [reqs EXCEPT ![i] = Idle]

\* Mutant of ProcessRound: a round that is already completed is refused.
ProcessRound_reject(op, fx, round_id, i) ==
    IF rounds[round_id].status = "completed"
    THEN /\ last' = Answer(op, "already_completed", round_id, 0)
         /\ reqs' = Left(i)
         /\ UNCHANGED <<players, rounds, picks>>
    ELSE IF Undecided(fx, round_id) # {}
    THEN /\ last' = Answer(op, "undecided", round_id, Cardinality(Undecided(fx, round_id)))
         /\ reqs' = Left(i)
         /\ UNCHANGED <<players, rounds, picks>>
    ELSE /\ i = 0 => FreeSlots # {}
         /\ picks' = JudgedPicks(fx, picks, round_id)
         /\ players' = JudgedPlayers(fx, picks, players, round_id)
         /\ rounds' = [rounds EXCEPT ![round_id].status = "completed"]
         /\ reqs' = [reqs EXCEPT ![IF i = 0 THEN FreeSlot ELSE i] =
                        Flash(op, NULL, Some(round_id), FALSE, round_id,
                              Cardinality(Losers(fx, picks, round_id)))]
         /\ last' = Answer(op, "processed", round_id,
                           Cardinality(Losers(fx, picks, round_id)))

\* The part the two processing routes share (app.py 646-682 and 1308-1338),
\* run on the fixtures as the route sees them, for the request of slot i (0
\* for a request that has no slot yet): undecided fixtures end the request;
\* else the picks are judged and the round is completed and committed, and
\* the message of line 684 or 1340 reads the round again.
ProcessRound(op, fx, round_id, i) ==
    IF Undecided(fx, round_id) # {}
    THEN /\ last' = Answer(op, "undecided", round_id, Cardinality(Undecided(fx, round_id)))
         /\ reqs' = Left(i)
         /\ UNCHANGED <<players, rounds, picks>>
    ELSE /\ i = 0 => FreeSlots # {}
         /\ picks' = JudgedPicks(fx, picks, round_id)
         /\ players' = JudgedPlayers(fx, picks, players, round_id)
         /\ rounds' = [rounds EXCEPT ![round_id].status = "completed"]
         /\ reqs' = [reqs EXCEPT ![IF i = 0 THEN FreeSlot ELSE i] =
                        Flash(op, NULL, Some(round_id), FALSE, round_id,
                              Cardinality(Losers(fx, picks, round_id)))]
         /\ last' = Answer(op, "processed", round_id,
                           Cardinality(Losers(fx, picks, round_id)))

\* Mutant of admin_process_round: undecided fixtures put the round back to open.
admin_process_round_reopen(round_id) ==
    IF round_id \notin RoundIds
    THEN /\ last' = Answer("admin_process_round", "404", round_id, 0)
         /\ UNCHANGED <<players, rounds, fixtures, picks, reqs, queue, updated_at>>
    ELSE IF Undecided(fixtures, round_id) # {}
    THEN /\ last' = Answer("admin_process_round", "undecided", round_id,
                           Cardinality(Undecided(fixtures, round_id)))
         /\ rounds' = [rounds EXCEPT ![round_id].status = "open"]
         /\ UNCHANGED <<players, fixtures, picks, reqs, queue, updated_at>>
    ELSE /\ ProcessRound("admin_process_round", fixtures, round_id, 0)
         /\ UNCHANGED <<fixtures, queue, updated_at>>

\* app.py admin_process_round up to its commit (line 682).
admin_process_round(round_id) ==
    IF round_id \notin RoundIds
    THEN /\ last' = Answer("admin_process_round", "404", round_id, 0)
         /\ UNCHANGED <<players, rounds, fixtures, picks, reqs, queue, updated_at>>
    ELSE /\ ProcessRound("admin_process_round", fixtures, round_id, 0)
         /\ UNCHANGED <<fixtures, queue, updated_at>>

\* app.py admin_auto_update_and_process_round up to its call of the API
\* (1279-1290); a round without a fixture of numeric event_id is processed
\* at once, nothing being asked of the API and nothing committed before.
admin_auto_update_and_process_round_read(round_id) ==
    IF round_id \notin RoundIds
    THEN /\ last' = Answer("admin_auto_update_and_process_round", "404", round_id, 0)
         /\ UNCHANGED <<players, rounds, fixtures, picks, reqs, queue, updated_at>>
    ELSE IF \A f \in RoundFixtures(round_id) : ~IsDigit(fixtures[f].event_id)
    THEN /\ ProcessRound("admin_auto_update_and_process_round", fixtures, round_id, 0)
         /\ UNCHANGED <<fixtures, queue, updated_at>>
    ELSE /\ FreeSlots # {}
         /\ reqs' = [reqs EXCEPT ![FreeSlot] =
                        AtApi("admin_auto_update_and_process_round", round_id)]
         /\ last' = Answer("admin_auto_update_and_process_round", "api", round_id, 0)
         /\ UNCHANGED <<players, rounds, fixtures, picks, queue, updated_at>>

\* app.py admin_auto_update_and_process_round from the answer of the API to
\* the commit of the results (1291-1305); wrote keeps the rows that commit
\* changed.
admin_auto_update_and_process_round_commit(i, data) ==
    /\ reqs[i].pc = "api"
    /\ reqs[i].op = "admin_auto_update_and_process_round"
    /\ IF Stale(fixtures, reqs[i].loaded, data)
       THEN /\ last' = Answer("admin_auto_update_and_process_round", "500",
                              reqs[i].round_id, 0)
            /\ reqs' = [reqs EXCEPT ![i] = Idle]
            /\ UNCHANGED fixtures
       ELSE /\ fixtures' = Flushed(fixtures, reqs[i].loaded, data)
            /\ reqs' = [reqs EXCEPT ![i] =
                           [pc |-> "process", op |-> reqs[i].op,
                            round_id |-> reqs[i].round_id,
                            wrote |-> {f \in FixtureIds : fixtures'[f] # fixtures[f]}]]
            /\ last' = Answer("admin_auto_update_and_process_round", "results_saved",
                              reqs[i].round_id, 0)
    /\ UNCHANGED <<players, rounds, picks, queue, updated_at>>

\* app.py admin_auto_update_and_process_round after the commit of the results
\* (1307-1338): the commit has expired the session, so the round, its
\* fixtures and its picks are read again, as the store holds them now.
admin_auto_update_and_process_round_process(i) ==
    /\ reqs[i].pc = "process"
    /\ IF reqs[i].round_id \notin RoundIds
       THEN /\ last' = Answer("admin_auto_update_and_process_round", "500",
                              reqs[i].round_id, 0)
            /\ reqs' = [reqs EXCEPT ![i] = Idle]
            /\ UNCHANGED <<players, rounds, picks>>
       ELSE ProcessRound("admin_auto_update_and_process_round", fixtures,
                         reqs[i].round_id, i)
    /\ UNCHANGED <<fixtures, queue, updated_at>>

\* ------------------------------------------------------------ pick submission
\* A submission reads the store (player, round, existing picks) and, when every
\* check has passed, inserts its Pick in a later round trip.  Between the two,
\* the request waits in a slot with the row it is about to insert.

NewPick(player_id, round_id, team_picked) ==
    [player_id |-> player_id, round_id |-> round_id, team_picked |-> team_picked,
     is_winner |-> NULL, is_eliminated |-> FALSE]

Waiting(op, player_id, round_id, team_picked) ==
    [pc |-> "commit", op |-> op, row |-> NewPick(player_id, round_id, team_picked)]

\* Round.query.filter_by(status='open').first(): the open round of lowest id.
OpenRounds == {r \in RoundIds : rounds[r].status = "open"}
current_round ==
    IF OpenRounds = {} THEN NULL
    ELSE Some(CHOOSE r \in OpenRounds : \A q \in OpenRounds : r <= q)

\* Pick.query.filter_by(player_id=..., round_id=...).first()
existing_pick(player_id, round_id) ==
    \E i \in PickIds : picks[i].player_id = player_id /\ picks[i].round_id = round_id

\* pick_with_token 418-419: the teams of the player's picks of other rounds, as stored.
prior_teams(player_id, round_id) ==
    {picks[i].team_picked : i \in {k \in PickIds : /\ picks[k].player_id = player_id
                                                   /\ picks[k].round_id # round_id}}

\* Mutant of pick_with_token_answer: the existing-pick check is missing.
pick_with_token_answer_noexisting(tok, team_picked) ==
    IF tok = NULL THEN "InvalidLink"
    ELSE LET player_id == Val(tok)[1]
             round_id == Val(tok)[2]
         IN  IF player_id \notin PlayerIds \/ round_id \notin RoundIds THEN "404"
             ELSE IF rounds[round_id].status # "open" THEN "RoundNotOpen"
             ELSE IF team_picked = EmptyStr THEN "NoTeam"
             ELSE IF players[player_id].status = "eliminated" THEN "AlreadyEliminated"
             ELSE IF team_picked \in prior_teams(player_id, round_id) THEN "TeamAlreadyUsed"
             ELSE "insert"

\* The answer of pick_with_token (POST) up to its insert, lines 390-422; tok is
\* NULL for a token parse_pick_token rejects, else the pair it carries.
pick_with_token_answer(tok, team_picked) ==
    IF tok = NULL THEN "InvalidLink"
    ELSE LET player_id == Val(tok)[1]
             round_id == Val(tok)[2]
         IN  IF player_id \notin PlayerIds \/ round_id \notin RoundIds THEN "404"
             ELSE IF rounds[round_id].status # "open" THEN "RoundNotOpen"
             ELSE IF team_picked = EmptyStr THEN "NoTeam"
             ELSE IF players[player_id].status = "eliminated" THEN "AlreadyEliminated"
             ELSE IF existing_pick(player_id, round_id) THEN "DuplicatePick"
             ELSE IF team_picked \in prior_teams(player_id, round_id) THEN "TeamAlreadyUsed"
             ELSE "insert"

\* The request of a pick submission between its commit and its message,
\* which reads the player's name and the round's number again (425, 480).
PickFlash(op, row) ==
    Flash(op, Some(row.player_id), Some(row.round_id), FALSE, row.round_id, row.player_id)

\* app.py pick_with_token, POST, up to its commit in one transaction: the
\* checks of lines 390-422, then the insert of 423-424.
pick_with_token(tok, team_picked) ==
    LET answer == pick_with_token_answer(tok, team_picked)
        round_id == IF tok = NULL THEN 0 ELSE Val(tok)[2]
        player_id == IF tok = NULL THEN 0 ELSE Val(tok)[1]
    IN  /\ UNCHANGED <<players, rounds, fixtures, queue, updated_at>>
        /\ IF answer = "insert"
           THEN /\ FreeSlots # {}
                /\ picks' = Append(picks, NewPick(player_id, round_id, team_picked))
                /\ reqs' = [reqs EXCEPT ![FreeSlot] =
                               PickFlash("pick_with_token",
                                         NewPick(player_id, round_id, team_picked))]
                /\ last' = Answer("pick_with_token", "submitted", round_id, player_id)
           ELSE /\ last' = Answer("pick_with_token", answer, round_id, player_id)
                /\ UNCHANGED <<picks, reqs>>

\* The same handler as a concurrent request: its reads and checks now, its
\* insert in a later step (pick_insert).
pick_with_token_read(tok, team_picked) ==
    LET answer == pick_with_token_answer(tok, team_picked)
        round_id == IF tok = NULL THEN 0 ELSE Val(tok)[2]
        player_id == IF tok = NULL THEN 0 ELSE Val(tok)[1]
    IN  /\ last' = Answer("pick_with_token", answer, round_id, player_id)
        /\ UNCHANGED <<players, rounds, fixtures, picks, queue, updated_at>>
        /\ IF answer = "insert"
           THEN /\ FreeSlots # {}
                /\ reqs' = [reqs EXCEPT ![FreeSlot] =
                              Waiting("pick_with_token", player_id, round_id, team_picked)]
           ELSE UNCHANGED reqs

\* The answer of submit_pick (POST) up to its insert, lines 446-470.
submit_pick_answer(player_id, team_picked) ==
    IF player_id \notin PlayerIds THEN "404"
    ELSE IF team_picked = EmptyStr THEN "NoTeam"
    ELSE IF players[player_id].status = "eliminated" THEN "AlreadyEliminated"
    ELSE IF current_round = NULL THEN "RoundNotOpen"
    ELSE IF existing_pick(player_id, Val(current_round)) THEN "DuplicatePick"
    ELSE "insert"

\* app.py submit_pick, POST, up to its commit in one transaction: the checks
\* of lines 446-470, then the insert of 472-479.
submit_pick(player_id, team_picked) ==
    LET answer == submit_pick_answer(player_id, team_picked)
        round_id == IF current_round = NULL THEN 0 ELSE Val(current_round)
    IN  /\ UNCHANGED <<players, rounds, fixtures, queue, updated_at>>
        /\ IF answer = "insert"
           THEN /\ FreeSlots # {}
                /\ picks' = Append(picks, NewPick(player_id, round_id, team_picked))
                /\ reqs' = [reqs EXCEPT ![FreeSlot] =
                               PickFlash("submit_pick",
                                         NewPick(player_id, round_id, team_picked))]
                /\ last' = Answer("submit_pick", "submitted", round_id, player_id)
           ELSE /\ last' = Answer("submit_pick", answer, round_id, player_id)
                /\ UNCHANGED <<picks, reqs>>

\* The same handler as a concurrent request (see pick_with_token_read).
submit_pick_read(player_id, team_picked) ==
    LET answer == submit_pick_answer(player_id, team_picked)
        round_id == IF current_round = NULL THEN 0 ELSE Val(current_round)
    IN  /\ last' = Answer("submit_pick", answer, round_id, player_id)
        /\ UNCHANGED <<players, rounds, fixtures, picks, queue, updated_at>>
        /\ IF answer = "insert"
           THEN /\ FreeSlots # {}
                /\ reqs' = [reqs EXCEPT ![FreeSlot] =
                              Waiting("submit_pick", player_id, round_id, team_picked)]
           ELSE UNCHANGED reqs

\* db.session.add(Pick(...)); db.session.commit(): pick_with_token 423-424 and
\* submit_pick 472-479.  The Pick table has no unique constraint; the row is
\* inserted whatever has become of its player and its round.
pick_insert(i) ==
    /\ reqs[i].pc = "commit"
    /\ picks' = Append(picks, reqs[i].row)
    /\ reqs' = [reqs EXCEPT ![i] = PickFlash(reqs[i].op, reqs[i].row)]
    /\ last' = Answer(reqs[i].op, "submitted", reqs[i].row.round_id, reqs[i].row.player_id)
    /\ UNCHANGED <<players, rounds, fixtures, queue, updated_at>>

\* ------------------------------------------------------------- administration
\* app.py eliminate_player up to its commit (line 781); the message of line
\* 782 reads the player again, inside the try block.
eliminate_player(player_id) ==
    IF player_id \notin PlayerIds
    THEN /\ last' = Answer("eliminate_player", "404", player_id, 0)
         /\ UNCHANGED <<players, rounds, fixtures, picks, reqs, queue, updated_at>>
    ELSE /\ FreeSlots # {}
         /\ players' = [players EXCEPT ![player_id].status = "eliminated"]
         /\ reqs' = [reqs EXCEPT ![FreeSlot] =
                        Flash("eliminate_player", Some(player_id), NULL, TRUE, player_id, 0)]
         /\ last' = Answer("eliminate_player", "ok", player_id, 0)
         /\ UNCHANGED <<rounds, fixtures, picks, queue, updated_at>>

\* app.py delete_player: the row is deleted; the delete first sets player_id
\* of the player's picks to NULL, which the column refuses (nullable=False),
\* and the handler then rolls back and reports the error.
delete_player(player_id) ==
    IF player_id \notin PlayerIds
    THEN /\ last' = Answer("delete_player", "404", player_id, 0)
         /\ UNCHANGED <<players, rounds, fixtures, picks, reqs, queue, updated_at>>
    ELSE IF \E i \in PickIds : picks[i].player_id = player_id
    THEN /\ last' = Answer("delete_player", "error", player_id, 0)
         /\ UNCHANGED <<players, rounds, fixtures, picks, reqs, queue, updated_at>>
    ELSE /\ players' = [p \in PlayerIds \ {player_id} |-> players[p]]
         /\ last' = Answer("delete_player", "ok", player_id, 0)
         /\ UNCHANGED <<rounds, fixtures, picks, reqs, queue, updated_at>>

\* Mutant of admin_reset_game: the picks are kept.
admin_reset_game_keeppicks ==
    /\ fixtures' = <<>>
    /\ rounds' = <<>>
    /\ players' = [p \in PlayerIds |-> [players[p] EXCEPT !.status = "active"]]
    /\ last' = Answer("admin_reset_game", "ok", 0, 0)
    /\ UNCHANGED <<picks, reqs, queue, updated_at>>

\* app.py admin_reset_game: picks, fixtures and rounds deleted, players active.
admin_reset_game ==
    /\ picks' = <<>>
    /\ fixtures' = <<>>
    /\ rounds' = <<>>
    /\ players' = [p \in PlayerIds |-> [players[p] EXCEPT !.status = "active"]]
    /\ last' = Answer("admin_reset_game", "ok", 0, 0)
    /\ UNCHANGED <<reqs, queue, updated_at>>

\* -------------------------------------------------------------- specification
\* The inputs the handlers are driven with.  The names typed into the
\* registration forms: those already taken and the first ones that are free.
PlayerName(n) == <<"P">> \o Str(n)
FreeNames == {n \in 1..Len(Digits) : ~existing_player(players, PlayerName(n))}
NewName == PlayerName(CHOOSE n \in FreeNames : \A m \in FreeNames : n <= m)
NextName == PlayerName(CHOOSE n \in FreeNames :
                Cardinality({m \in FreeNames : m < n}) = 1)
TakenNames == {players[p].name : p \in PlayerIds}
RECURSIVE Lines(_)
Lines(names) ==
    IF names = <<>> THEN <<>>
    ELSE Head(names) \o <<"\n">> \o Lines(Tail(names))
\* The names the edit form is driven to: PlayerName(1) to PlayerName(MaxNames).
MaxNames == 2
ShortNames == {PlayerName(n) : n \in 1..MaxNames}
EditNames == {NULL} \cup {Some(name) : name \in TakenNames \cup {NewName}}
BulkForms ==
    {Lines(<<NewName, EmptyStr, NextName \o <<" ">>>>)}
        \cup {Lines(<<name, NewName, NewName>>) : name \in TakenNames}

ManualResults ==
    {<<Some(1), Some(0), "completed">>, <<Some(1), Some(1), "completed">>,
     <<NULL, NULL, "postponed">>}
ApiMatches == {ApiMatch(Some(0), Some(1), Some("FT")), ApiMatch(NULL, NULL, Some("NS"))}
ApiAnswers == [ApiEvents -> {NULL} \cup {Some(m) : m \in ApiMatches}]

\* No request is between two of its steps.
Quiet == \A i \in 1..MaxReqs : reqs[i].pc = "idle"

\* Spec: the handlers run one after the other; those that wait for the
\* sports-data API, and those that build their message after their commit,
\* run their steps without another request in between.
Next ==
    \/ /\ Quiet
       /\ Rows < MaxRows
       /\ NewId(players) <= MaxRows
       /\ \E name \in TakenNames \cup {NewName} : register_player(name)
    \/ /\ Quiet
       /\ \E form \in BulkForms : admin_bulk_register_players(form)
       /\ Cardinality(DOMAIN players') + Len(rounds) + Len(fixtures) <= MaxRows
       /\ \A p \in DOMAIN players' : p <= MaxRows
    \/ /\ Quiet
       /\ \E p \in PlayerIds, name \in EditNames : edit_player(p, name)
       /\ \A p \in DOMAIN players' : players'[p].name \in ShortNames
    \/ Quiet /\ \E p \in PlayerIds : delete_player(p)
    \/ Quiet /\ Rows < MaxRows /\ admin_create_round(Len(rounds) + 1)
    \/ /\ Quiet
       /\ Rows < MaxRows
       /\ \E r \in RoundIds : admin_manual_add_fixture(r, Ars, Che)
    \/ /\ Quiet
       /\ Rows < MaxRows
       /\ \E data \in ApiAnswers : admin_load_fixtures(data)
    \/ /\ Quiet
       /\ \E r \in RoundIds, sel \in SUBSET FixtureIds : bulk_assign_fixtures(r, sel)
    \/ /\ Quiet
       /\ \E r \in RoundIds, f \in FixtureIds, res \in ManualResults :
             admin_update_results(r, f, res[1], res[2], res[3])
    \/ Quiet /\ \E r \in RoundIds : admin_auto_update_results_read(r)
    \/ \E i \in 1..MaxReqs, data \in ApiAnswers : admin_auto_update_results_commit(i, data)
    \/ Quiet /\ \E r \in RoundIds : admin_process_round(r)
    \/ Quiet /\ \E r \in RoundIds : admin_auto_update_and_process_round_read(r)
    \/ \E i \in 1..MaxReqs, data \in ApiAnswers :
          admin_auto_update_and_process_round_commit(i, data)
    \/ \E i \in 1..MaxReqs : admin_auto_update_and_process_round_process(i)
    \/ /\ Quiet
       /\ \E p \in PlayerIds, r \in RoundIds, team \in {ArsLow, Che} :
             pick_with_token(Some(<<p, r>>), team)
    \/ Quiet /\ \E p \in PlayerIds, team \in {ArsLow, Che} : submit_pick(p, team)
    \/ Quiet /\ \E p \in PlayerIds : eliminate_player(p)
    \/ Quiet /\ admin_reset_game
    \/ \E i \in 1..MaxReqs : flash(i)

Spec == Init /\ [][Next]_vars

\* SpecApi: the two handlers that wait for the sports-data API run
\* concurrently with the manual results form, with the processing of the
\* round, with a pick and with the reset of the game; one player, one round,
\* the fixture the API knows, one request waiting for the API at a time.
MaxApiRows == 3

NextApi ==
    \/ PlayerIds = {} /\ register_player(NewName)
    \/ Len(rounds) < 1 /\ admin_create_round(Len(rounds) + 1)
    \/ /\ Rows < MaxApiRows
       /\ admin_load_fixtures([e \in ApiEvents |-> Some(ApiMatch(NULL, NULL, Some("NS")))])
    \/ \E r \in RoundIds, sel \in SUBSET FixtureIds :
          sel # {} /\ bulk_assign_fixtures(r, sel)
    \/ \E r \in RoundIds, f \in FixtureIds, res \in ManualResults :
          admin_update_results(r, f, res[1], res[2], res[3])
    \/ Quiet /\ \E r \in RoundIds : admin_auto_update_results_read(r)
    \/ \E i \in 1..MaxReqs, data \in ApiAnswers : admin_auto_update_results_commit(i, data)
    \/ \E r \in RoundIds : admin_process_round(r)
    \/ Quiet /\ \E r \in RoundIds : admin_auto_update_and_process_round_read(r)
    \/ \E i \in 1..MaxReqs, data \in ApiAnswers :
          admin_auto_update_and_process_round_commit(i, data)
    \/ \E i \in 1..MaxReqs : admin_auto_update_and_process_round_process(i)
    \/ /\ Len(picks) < 1
       /\ \E p \in PlayerIds, r \in RoundIds : pick_with_token(Some(<<p, r>>), Che)
    \/ admin_reset_game
    \/ \E i \in 1..MaxReqs : flash(i)

SpecApi == Init /\ [][NextApi]_vars

\* SpecConc: pick submissions run concurrently with each other and with the
\* processing of a round; one fixture, one result.
NextConc ==
    \/ Rows + Len(picks) < ConcRows /\ register_player(NewName)
    \/ Rows + Len(picks) < ConcRows /\ admin_create_round(Len(rounds) + 1)
    \/ /\ Rows + Len(picks) < ConcRows
       /\ \E r \in RoundIds : admin_manual_add_fixture(r, Ars, Che)
    \/ \E r \in RoundIds, f \in FixtureIds :
          admin_update_results(r, f, Some(1), Some(0), "completed")
    \/ \E r \in RoundIds : admin_process_round(r)
    \/ \E p \in PlayerIds, r \in RoundIds, team \in {Ars, ArsLow, Che} :
          pick_with_token_read(Some(<<p, r>>), team)
    \/ \E p \in PlayerIds, team \in {Ars, ArsLow, Che} : submit_pick_read(p, team)
    \/ \E i \in 1..MaxReqs : Rows + Len(picks) < ConcRows /\ pick_insert(i)
    \/ \E i \in 1..MaxReqs : flash(i)

SpecConc == Init /\ [][NextConc]_vars

\* SpecRounds: the two ways to create a round, with round numbers as the
\* administrator types them, the loading of fixtures and the closing of rounds.
MaxRoundRows == 3
MaxRoundNumber == 2
RoundNumbers == 1..MaxRoundNumber

\* The lists of fixture values a form can post: up to MaxSelected values, each
\* the id of a fixture on the page, an id that is gone, or no number at all.
MaxSelected == 2
SelectableValues == {NULL} \cup {Some(f) : f \in FixtureIds \cup {Len(fixtures) + 1}}
SelectableFixtures == UNION {[1..n -> SelectableValues] : n \in 0..MaxSelected}

NextRounds ==
    \/ /\ Len(rounds) + Len(fixtures) < MaxRoundRows
       /\ \E n \in RoundNumbers : admin_create_round(n)
    \/ /\ Len(rounds) + Len(fixtures) < MaxRoundRows
       /\ \E n \in RoundNumbers, sel \in SelectableFixtures, ok \in BOOLEAN :
             admin_create_next_round(n, sel, ok)
    \/ \E i \in 1..MaxReqs : admin_create_next_round_assign(i)
    \/ /\ Len(rounds) + Len(fixtures) < MaxRoundRows
       /\ \E data \in ApiAnswers : admin_load_fixtures(data)
    \/ \E r \in RoundIds : admin_process_round(r)
    \/ admin_reset_game
    \/ \E i \in 1..MaxReqs : flash(i)

SpecRounds == Init /\ [][NextRounds]_vars

\* ------------------------------------------------------- the send queue
\* The Authorization header of a worker request, '' when it is absent.
Bearer == <<"B", "e", "a", "r", "e", "r", " ">>
WORKER_API_TOKEN == <<"t", "k">>
WrongToken == <<"t", "x">>

\* str.startswith
StartsWith(s, prefix) ==
    /\ Len(s) >= Len(prefix)
    /\ SubSeq(s, 1, Len(prefix)) = prefix

\* str.replace(old, ''): every occurrence of old is removed, scanning from
\* the left.
RECURSIVE Replace(_, _)
Replace(s, old) ==
    IF s = <<>> THEN <<>>
    ELSE IF StartsWith(s, old) THEN Replace(SubSeq(s, Len(old) + 1, Len(s)), old)
    ELSE <<Head(s)>> \o Replace(Tail(s), old)

\* app.py validate_worker_token.
validate_worker_token(auth_header) ==
    IF ~StartsWith(auth_header, Bearer) THEN FALSE
    ELSE Replace(auth_header, Bearer) = WORKER_API_TOKEN

JobIds == DOMAIN queue

\* db.func.now() as a statement may read it against the stored times u: the
\* database clock counts whole seconds (SQLite CURRENT_TIMESTAMP), so the time
\* is that of the latest stored update when both fall into one second, else a
\* later one.  Times are kept as ranks counted from 1.
Latest(u) == IF DOMAIN u = {} THEN 0 ELSE CHOOSE t \in {u[j] : j \in DOMAIN u} :
                                             \A k \in DOMAIN u : u[k] <= t

\* The times the rows S get in one commit: the unit of work writes them with
\* one statement for each row, in the order of their ids, and the clock is
\* read by each statement, so a row has the time of the row written before it
\* or, when the second has ticked in between, a later one.
Stamps(u, S) ==
    {c \in [S -> Latest(u)..(Latest(u) + Cardinality(S))] :
        \A j \in S :
            LET before == {k \in S : k < j} IN
            c[j] - (IF before = {} THEN Latest(u) ELSE c[SetMax(before)]) \in {0, 1}}

\* SendQueue.updated_at (server_default now(), onupdate now()): the rows
\* written take the times c.  Only the order of the times is kept, as ranks
\* counted from 1, rows written in the same second sharing a rank.
Touch(u, c) ==
    LET raw == [j \in DOMAIN u |-> IF j \in DOMAIN c THEN c[j] ELSE u[j]]
    IN  [j \in DOMAIN u |->
            Cardinality({raw[k] : k \in {i \in DOMAIN u : raw[i] <= raw[j]}})]

\* Mutant of Truthy: no error text counts as given.
Truthy_never(error) == FALSE

\* Python truth of the optional body field error: absent, null and ''
\* are false.
Truthy(error) == error # NULL /\ error # Some("")
PendingJobs == {j \in JobIds : queue[j].status = "pending"}

\* app.py queue_whatsapp_message: a new SendQueue row, 'pending', attempts 0.
queue_whatsapp_message(player_id) ==
    /\ queue' = Append(queue, [player_id |-> Some(player_id), status |-> "pending",
                               attempts |-> 0, last_error |-> NULL])
    /\ \E c \in Stamps(updated_at, {Len(queue) + 1}) :
          updated_at' = Touch(Append(updated_at, 0), c)

\* Mutant of admin_send_whatsapp_link: the unreachable flag is not looked at.
admin_send_whatsapp_link_force(player_id, has_number) ==
    LET answer == IF player_id \notin PlayerIds THEN "404"
                  ELSE IF ~has_number THEN "no_number"
                  ELSE IF current_round = NULL THEN "no_open_round"
                  ELSE "queued"
    IN  /\ IF answer = "queued"
           THEN /\ FreeSlots # {}
                /\ queue_whatsapp_message(player_id)
                /\ reqs' = [reqs EXCEPT ![FreeSlot] =
                               Flash("admin_send_whatsapp_link", Some(player_id), NULL,
                                     FALSE, player_id, 0)]
           ELSE UNCHANGED <<queue, updated_at, reqs>>
        /\ last' = Answer("admin_send_whatsapp_link", answer, player_id, 0)
        /\ UNCHANGED <<players, rounds, fixtures, picks>>

\* app.py admin_send_whatsapp_link up to the commit of queue_whatsapp_message
\* (line 176); has_number tells whether the player's whatsapp_number is set.
\* The message of line 912 reads the player again.
admin_send_whatsapp_link(player_id, has_number) ==
    LET answer == IF player_id \notin PlayerIds THEN "404"
                  ELSE IF ~has_number THEN "no_number"
                  ELSE IF current_round = NULL THEN "no_open_round"
                  ELSE IF players[player_id].unreachable THEN "unreachable"
                  ELSE "queued"
    IN  /\ IF answer = "queued"
           THEN /\ FreeSlots # {}
                /\ queue_whatsapp_message(player_id)
                /\ reqs' = [reqs EXCEPT ![FreeSlot] =
                               Flash("admin_send_whatsapp_link", Some(player_id), NULL,
                                     FALSE, player_id, 0)]
           ELSE UNCHANGED <<queue, updated_at, reqs>>
        /\ last' = Answer("admin_send_whatsapp_link", answer, player_id, 0)
        /\ UNCHANGED <<players, rounds, fixtures, picks>>

\* The orders in which a query without ORDER BY may return the rows S.
Orders(S) ==
    {f \in [1..Cardinality(S) -> S] : \A i, j \in 1..Cardinality(S) : i # j => f[i] # f[j]}

\* The loop of admin_send_whatsapp_links from the player at the head of todo
\* on, up to the next player it queues a link for: a player flagged
\* unreachable, or without a number that is set and valid, is passed over.
\* After a commit the session reads each row again when the loop looks at it,
\* and a row that is gone ends the request with an error.
RECURSIVE LinksWalk(_, _)
LinksWalk(todo, valid) ==
    IF todo = <<>> THEN [stop |-> "end", todo |-> todo]
    ELSE IF Head(todo) \notin PlayerIds THEN [stop |-> "gone", todo |-> todo]
    ELSE IF players[Head(todo)].unreachable \/ Head(todo) \notin valid
    THEN LinksWalk(Tail(todo), valid)
    ELSE [stop |-> "queue", todo |-> todo]

\* The request in slot i runs its loop over todo up to its next commit
\* (queue_whatsapp_message commits for each player) or to its answer; queued
\* counts the links queued so far.  The token of a link reads the round row,
\* which may be gone as well.
LinksLoop(i, valid, round_id, todo, queued) ==
    LET walk == LinksWalk(todo, valid) IN
    IF walk.stop = "gone" \/ (walk.stop = "queue" /\ round_id \notin RoundIds)
    THEN /\ reqs' = [reqs EXCEPT ![i] = Idle]
         /\ last' = Answer("admin_send_whatsapp_links", "500", valid, queued)
         /\ UNCHANGED <<queue, updated_at>>
    ELSE IF walk.stop = "end"
    THEN /\ reqs' = [reqs EXCEPT ![i] = Idle]
         /\ last' = Answer("admin_send_whatsapp_links", "queued", valid, queued)
         /\ UNCHANGED <<queue, updated_at>>
    ELSE /\ queue_whatsapp_message(Head(walk.todo))
         /\ reqs' = [reqs EXCEPT ![i] =
                        [pc |-> "links", valid |-> valid, round_id |-> round_id,
                         todo |-> walk.todo, queued |-> queued + 1]]
         /\ last' = Answer("admin_send_whatsapp_links", "committed", valid, queued + 1)

\* app.py admin_send_whatsapp_links (and its alias admin_send_whatsapp) up to
\* its first commit; valid is the set of players whose whatsapp_number is set
\* and passes is_valid_phone_number.  The active players come in any order
\* (the query has no ORDER BY).
admin_send_whatsapp_links(valid) ==
    LET active == {p \in PlayerIds : players[p].status = "active"}
    IN  /\ UNCHANGED <<players, rounds, fixtures, picks>>
        /\ IF current_round = NULL
           THEN /\ last' = Answer("admin_send_whatsapp_links", "no_open_round", valid, 0)
                /\ UNCHANGED <<reqs, queue, updated_at>>
           ELSE IF active = {}
           THEN /\ last' = Answer("admin_send_whatsapp_links", "no_active_players", valid, 0)
                /\ UNCHANGED <<reqs, queue, updated_at>>
           ELSE /\ FreeSlots # {}
                /\ \E order \in Orders(active) :
                      LinksLoop(FreeSlot, valid, Val(current_round), order, 0)

\* admin_send_whatsapp_links after a commit: the player just queued is read
\* again for the detail line (p.name), then the loop goes on.
admin_send_whatsapp_links_next(i) ==
    /\ reqs[i].pc = "links"
    /\ UNCHANGED <<players, rounds, fixtures, picks>>
    /\ IF Head(reqs[i].todo) \notin PlayerIds
       THEN /\ reqs' = [reqs EXCEPT ![i] = Idle]
            /\ last' = Answer("admin_send_whatsapp_links", "500", reqs[i].valid,
                              reqs[i].queued)
            /\ UNCHANGED <<queue, updated_at>>
       ELSE LinksLoop(i, reqs[i].valid, reqs[i].round_id, Tail(reqs[i].todo),
                      reqs[i].queued)

\* The request of a worker call, as the answer records it.
NextRequest(auth_header, limit) == [auth |-> auth_header, limit |-> limit]
MarkRequest(auth_header, job_id, status, error) ==
    [auth |-> auth_header, id |-> job_id, status |-> status, error |-> error]

Min(a, b) == IF a <= b THEN a ELSE b

\* Mutant of PendingLimit: a job in progress counts as pending again.
PendingLimit_expired(limit) ==
    LET open == {j \in JobIds : queue[j].status \in {"pending", "in_progress"}}
    IN  {S \in SUBSET open : Cardinality(S) = Min(limit, Cardinality(open))}

\* Mutant of PendingLimit: the limit is applied to the table before the
\* filter, so only the first rows of the table are ever looked at.
PendingLimit_firstrows(limit) == {{j \in PendingJobs : j <= limit}}

\* Mutant of PendingLimit: the limit is not applied.
PendingLimit_all(limit) == {PendingJobs}

\* SendQueue.query.filter_by(status='pending').limit(limit).all(): the query
\* has no ORDER BY, so any limit of the pending rows may come back.
PendingLimit(limit) ==
    {S \in SUBSET PendingJobs : Cardinality(S) = Min(limit, Cardinality(PendingJobs))}

\* The rows of jobs S after the loop of api_queue_next, attempts counted up
\* from the values loaded.
Claimed(q, loaded) ==
    [j \in DOMAIN q |->
        IF j \in DOMAIN loaded
        THEN [q[j] EXCEPT !.status = "in_progress", !.attempts = loaded[j] + 1]
        ELSE q[j]]

\* A row the request loaded is gone at its commit: the UPDATE of the row
\* matches nothing, the session raises StaleDataError, nothing is written and
\* the request is answered 500.
StaleClaim(loaded) == \E j \in DOMAIN loaded : j \notin JobIds

\* app.py api_queue_next (GET /api/queue/next?limit=N), run as a whole.
api_queue_next(auth_header, limit) ==
    IF ~validate_worker_token(auth_header)
    THEN /\ last' = Answer("api_queue_next", "401", NextRequest(auth_header, limit), {})
         /\ UNCHANGED <<players, rounds, fixtures, picks, reqs, queue, updated_at>>
    ELSE \E S \in PendingLimit(limit) :
            /\ queue' = Claimed(queue, [j \in S |-> queue[j].attempts])
            /\ \E c \in Stamps(updated_at, S) : updated_at' = Touch(updated_at, c)
            /\ last' = Answer("api_queue_next", "200", NextRequest(auth_header, limit), S)
            /\ UNCHANGED <<players, rounds, fixtures, picks, reqs>>

\* api_queue_next up to its query: the rows loaded wait for the commit.
api_queue_next_read(auth_header, limit) ==
    IF ~validate_worker_token(auth_header)
    THEN /\ last' = Answer("api_queue_next", "401", NextRequest(auth_header, limit), {})
         /\ UNCHANGED <<players, rounds, fixtures, picks, reqs, queue, updated_at>>
    ELSE /\ FreeSlots # {}
         /\ \E S \in PendingLimit(limit) :
               reqs' = [reqs EXCEPT ![FreeSlot] =
                           [pc |-> "claim", request |-> NextRequest(auth_header, limit),
                            loaded |-> [j \in S |-> queue[j].attempts]]]
         /\ last' = Answer("api_queue_next", "query", NextRequest(auth_header, limit), {})
         /\ UNCHANGED <<players, rounds, fixtures, picks, queue, updated_at>>

\* api_queue_next from its loop to its answer: the loaded rows are written
\* and returned, unless one of them is gone.
api_queue_next_commit(i) ==
    /\ reqs[i].pc = "claim"
    /\ IF StaleClaim(reqs[i].loaded)
       THEN /\ last' = Answer("api_queue_next", "500", reqs[i].request, {})
            /\ UNCHANGED <<queue, updated_at>>
       ELSE /\ queue' = Claimed(queue, reqs[i].loaded)
            /\ \E c \in Stamps(updated_at, DOMAIN reqs[i].loaded) :
                  updated_at' = Touch(updated_at, c)
            /\ last' = Answer("api_queue_next", "200", reqs[i].request,
                              DOMAIN reqs[i].loaded)
    /\ reqs' = [reqs EXCEPT ![i] = Idle]
    /\ UNCHANGED <<players, rounds, fixtures, picks>>

\* app.py _consecutive_whatsapp_failures: the player's failed jobs, at most
\* window of them.
FailureWindow == 10
FailureThreshold == 5
consecutive_whatsapp_failures(q, player_id, window) ==
    Min(Cardinality({j \in DOMAIN q : /\ q[j].player_id = Some(player_id)
                                      /\ q[j].status = "failed"}), window)

\* Mutant of api_queue_mark: an unknown job id is answered as a success.
api_queue_mark_unknownok(auth_header, job_id, status, error) ==
    LET request == MarkRequest(auth_header, job_id, status, error) IN
    IF ~validate_worker_token(auth_header)
    THEN /\ last' = Answer("api_queue_mark", "401", request, 0)
         /\ UNCHANGED <<players, rounds, fixtures, picks, reqs, queue, updated_at>>
    ELSE IF job_id \notin JobIds
    THEN /\ last' = Answer("api_queue_mark", "200", request, 0)
         /\ UNCHANGED <<players, rounds, fixtures, picks, reqs, queue, updated_at>>
    ELSE /\ queue' = [queue EXCEPT ![job_id].status = status,
                                   ![job_id].last_error =
                                       IF Truthy(error) THEN error ELSE @]
         /\ \E c \in Stamps(updated_at, {job_id}) :
               updated_at' = IF queue'[job_id] # queue[job_id]
                             THEN Touch(updated_at, c) ELSE updated_at
         /\ last' = Answer("api_queue_mark", "200", request, 0)
         /\ UNCHANGED <<players, rounds, fixtures, picks, reqs>>

\* Mutant of api_queue_mark: a report of sent clears the recipient's flag.
api_queue_mark_recover(auth_header, job_id, status, error) ==
    LET request == MarkRequest(auth_header, job_id, status, error) IN
    IF ~validate_worker_token(auth_header)
    THEN /\ last' = Answer("api_queue_mark", "401", request, 0)
         /\ UNCHANGED <<players, rounds, fixtures, picks, reqs, queue, updated_at>>
    ELSE IF job_id \notin JobIds
    THEN /\ last' = Answer("api_queue_mark", "404", request, 0)
         /\ UNCHANGED <<players, rounds, fixtures, picks, reqs, queue, updated_at>>
    ELSE LET marked == [queue EXCEPT ![job_id].status = status,
                                     ![job_id].last_error =
                                         IF Truthy(error) THEN error ELSE @]
             owner == queue[job_id].player_id
         IN  /\ queue' = marked
             /\ \E c \in Stamps(updated_at, {job_id}) :
                   updated_at' = IF marked[job_id] # queue[job_id]
                                 THEN Touch(updated_at, c) ELSE updated_at
             /\ players' =
                   IF owner = NULL \/ Val(owner) \notin PlayerIds THEN players
                   ELSE IF status = "sent"
                   THEN [players EXCEPT ![Val(owner)].unreachable = FALSE]
                   ELSE IF /\ status = "failed"
                           /\ consecutive_whatsapp_failures(marked, Val(owner), FailureWindow)
                                 >= FailureThreshold
                   THEN [players EXCEPT ![Val(owner)].unreachable = TRUE]
                   ELSE players
             /\ last' = Answer("api_queue_mark", "200", request, 0)
             /\ UNCHANGED <<rounds, fixtures, picks, reqs>>

\* app.py api_queue_mark (POST /api/queue/mark); error is NULL when the body
\* carries none.
api_queue_mark(auth_header, job_id, status, error) ==
    LET request == MarkRequest(auth_header, job_id, status, error) IN
    IF ~validate_worker_token(auth_header)
    THEN /\ last' = Answer("api_queue_mark", "401", request, 0)
         /\ UNCHANGED <<players, rounds, fixtures, picks, reqs, queue, updated_at>>
    ELSE IF job_id \notin JobIds
    THEN /\ last' = Answer("api_queue_mark", "404", request, 0)
         /\ UNCHANGED <<players, rounds, fixtures, picks, reqs, queue, updated_at>>
    ELSE LET marked == [queue EXCEPT ![job_id].status = status,
                                     ![job_id].last_error =
                                         IF Truthy(error) THEN error ELSE @]
             owner == queue[job_id].player_id
         IN  /\ queue' = marked
             /\ \E c \in Stamps(updated_at, {job_id}) :
                   updated_at' = IF marked[job_id] # queue[job_id]
                                 THEN Touch(updated_at, c) ELSE updated_at
             /\ players' =
                   IF /\ status = "failed"
                      /\ owner # NULL
                      /\ consecutive_whatsapp_failures(marked, Val(owner), FailureWindow)
                            >= FailureThreshold
                      /\ Val(owner) \in PlayerIds
                   THEN [players EXCEPT ![Val(owner)].unreachable = TRUE]
                   ELSE players
             /\ last' = Answer("api_queue_mark", "200", request, 0)
             /\ UNCHANGED <<rounds, fixtures, picks, reqs>>

\* app.py admin_new_game: picks, fixtures, rounds and the send queue deleted,
\* every player active and reachable.
admin_new_game ==
    /\ picks' = <<>>
    /\ fixtures' = <<>>
    /\ rounds' = <<>>
    /\ queue' = <<>>
    /\ updated_at' = <<>>
    /\ players' = [p \in PlayerIds |->
                       [players[p] EXCEPT !.status = "active", !.unreachable = FALSE]]
    /\ last' = Answer("admin_new_game", "ok", 0, 0)
    /\ UNCHANGED reqs

\* The name written into reset_unreachable_flag.py.
ScriptPlayer == <<"A", ".", " ", "S", "i", "r", "i", "g", "n", "a", "n", "o">>

\* reset_unreachable_flag.py: the player of the name the script holds is
\* looked up (names are unique) and the flag of that player is cleared; the
\* script changes nothing when no player has the name.
reset_unreachable_flag ==
    LET found == {p \in PlayerIds : players[p].name = ScriptPlayer} IN
    IF found = {}
    THEN /\ last' = Answer("reset_unreachable_flag", "not_found", 0, 0)
         /\ UNCHANGED <<players, rounds, fixtures, picks, reqs, queue, updated_at>>
    ELSE LET player == CHOOSE p \in found : TRUE IN
         /\ players' = [players EXCEPT ![player].unreachable = FALSE]
         /\ last' = Answer("reset_unreachable_flag", "ok", player, 0)
         /\ UNCHANGED <<rounds, fixtures, picks, reqs, queue, updated_at>>

\* _consecutive_whatsapp_failures called on the store as it is.
call_consecutive_whatsapp_failures(player_id, window) ==
    /\ last' = Answer("consecutive_whatsapp_failures",
                      consecutive_whatsapp_failures(queue, player_id, window),
                      player_id, window)
    /\ UNCHANGED <<players, rounds, fixtures, picks, reqs, queue, updated_at>>

\* The worker requests the queue specifications draw from: the header with
\* the configured token, one with 'Bearer ' written twice, one with another
\* token, and no header.
GoodHeader == Bearer \o WORKER_API_TOKEN
DoubleHeader == Bearer \o Bearer \o WORKER_API_TOKEN
BadHeaders == {EmptyStr, Bearer \o WrongToken}
QueueLimits == {0, 1, 5}
MarkBodies == {<<"sent", NULL>>, <<"failed", Some("timeout")>>, <<"failed", Some("")>>,
               <<"pending", NULL>>}

QueueRows == Cardinality(DOMAIN players) + Len(rounds) + Len(queue)

\* SpecQueue: the send-link handler and the worker API, one request at a time.
NextQueue ==
    \/ Quiet /\ QueueRows < MaxQueueRows /\ register_player(NewName)
    \/ Quiet /\ QueueRows < MaxQueueRows /\ admin_create_round(Len(rounds) + 1)
    \/ /\ Quiet
       /\ QueueRows < MaxQueueRows
       /\ \E p \in PlayerIds, has_number \in BOOLEAN : admin_send_whatsapp_link(p, has_number)
    \/ /\ Quiet
       /\ \A j \in PendingJobs : queue[j].attempts < MaxAttempts
       /\ \/ \E limit \in QueueLimits : api_queue_next(GoodHeader, limit)
          \/ \E h \in BadHeaders \cup {DoubleHeader} : api_queue_next(h, 1)
    \/ \E j \in 1..(Len(queue) + 1), body \in MarkBodies :
          Quiet /\ api_queue_mark(GoodHeader, j, body[1], body[2])
    \/ \E h \in BadHeaders \cup {DoubleHeader}, j \in JobIds :
          Quiet /\ api_queue_mark(h, j, "sent", NULL)
    \/ Quiet /\ admin_new_game
    \/ \E i \in 1..MaxReqs : flash(i)

SpecQueue == Init /\ [][NextQueue]_vars

\* SpecQueueConc: two workers claim at the same time, while links are queued
\* and a new game is started.
NextQueueConc ==
    \/ PlayerIds = {} /\ register_player(NewName)
    \/ Len(rounds) < 1 /\ admin_create_round(Len(rounds) + 1)
    \/ /\ Len(queue) < ConcJobs
       /\ \E p \in PlayerIds : admin_send_whatsapp_link(p, TRUE)
    \/ api_queue_next_read(GoodHeader, 5)
    \/ \E i \in 1..MaxReqs : api_queue_next_commit(i)
    \/ admin_new_game
    \/ \E i \in 1..MaxReqs : flash(i)

SpecQueueConc == Init /\ [][NextQueueConc]_vars

\* SpecBreaker: the player reset_unreachable_flag.py names is sent link after
\* link; a worker claims the jobs one at a time and reports each claimed job
\* sent or failed; a link is sent
\* while at most one job is unfinished, and at most MaxSameSecond jobs share
\* their update time with another job; the requests run one after the other,
\* the bulk request from its commit to its answer without another in between.
BreakerJobs == 6
MaxSameSecond == 1
SameSecond(u) == Len(u) - Cardinality({u[j] : j \in DOMAIN u})
Unfinished == {j \in JobIds : queue[j].status \in {"pending", "in_progress"}}
BreakerWindows == {1, FailureWindow}
BreakerBodies == {<<"sent", NULL>>, <<"failed", Some("timeout")>>}

NextBreaker ==
    \/ Quiet /\ PlayerIds = {} /\ register_player(ScriptPlayer)
    \/ Quiet /\ Len(rounds) < 1 /\ admin_create_round(Len(rounds) + 1)
    \/ /\ Quiet
       /\ Len(queue) < BreakerJobs
       /\ Cardinality(Unfinished) <= 1
       /\ \/ \E p \in PlayerIds : admin_send_whatsapp_link(p, TRUE)
          \/ \E valid \in SUBSET PlayerIds : admin_send_whatsapp_links(valid)
       /\ SameSecond(updated_at') <= MaxSameSecond
    \/ \E i \in 1..MaxReqs : admin_send_whatsapp_links_next(i)
    \/ Quiet /\ api_queue_next(GoodHeader, 1) /\ SameSecond(updated_at') <= MaxSameSecond
    \/ \E j \in JobIds, body \in BreakerBodies :
          /\ Quiet
          /\ queue[j].status = "in_progress"
          /\ api_queue_mark(GoodHeader, j, body[1], body[2])
          /\ SameSecond(updated_at') <= MaxSameSecond
    \/ /\ Quiet
       /\ \E p \in PlayerIds, window \in BreakerWindows :
             call_consecutive_whatsapp_failures(p, window)
    \/ Quiet /\ admin_new_game
    \/ Quiet /\ reset_unreachable_flag
    \/ \E i \in 1..MaxReqs : flash(i)

SpecBreaker == Init /\ [][NextBreaker]_vars

\* SpecLinks: pick links are queued, one player at a time and in bulk, for
\* players of whom some have been eliminated or deleted; the bulk request
\* runs from commit to commit, the other requests and a worker's claim in
\* between.
MaxLinkPlayers == 2
MaxLinkJobs == 2

NextLinks ==
    \/ /\ Cardinality(PlayerIds) < MaxLinkPlayers
       /\ NewId(players) <= MaxLinkPlayers
       /\ register_player(NewName)
    \/ \E p \in PlayerIds : delete_player(p)
    \/ Len(rounds) < 1 /\ admin_create_round(Len(rounds) + 1)
    \/ \E p \in PlayerIds : eliminate_player(p)
    \/ /\ Len(queue) < MaxLinkJobs
       /\ \E p \in PlayerIds, has_number \in BOOLEAN : admin_send_whatsapp_link(p, has_number)
    \/ /\ Len(queue) < MaxLinkJobs
       /\ \E valid \in SUBSET PlayerIds : admin_send_whatsapp_links(valid)
    \/ /\ \E i \in 1..MaxReqs : admin_send_whatsapp_links_next(i)
       /\ Len(queue') <= MaxLinkJobs
    \/ api_queue_next(GoodHeader, 5)
    \/ \E i \in 1..MaxReqs : flash(i)

SpecLinks == Init /\ [][NextLinks]_vars

\* ----------------------------------------------------------- the workers
\* The local workers (sender_worker.py, sender_worker_enhanced.py,
\* whatsapp_service.py) poll the worker API, hand each job they receive to the
\* WhatsApp sender and report its outcome. A worker lives in a slot of reqs:
\* kind is its program, pc where it stands, running its shutdown flag, sender
\* whether it holds a sender, jobs the rest of the batch claimed for it,
\* handed the jobs it has given to the sender, loaded the rows its request in
\* flight has read, outcome what the sender returned for the job at the head
\* of jobs.
MaxWorkerJobs == 3

\* get_jobs(limit=10), scaled to the queue sizes of the model.
WorkerLimit == 2

Workers == 1..MaxReqs

SenderWorker == "sender_worker"
EnhancedWorker == "sender_worker_enhanced"
ServiceWorker == "whatsapp_service"

Worker(kind, pc, running, sender, jobs, handed, loaded, outcome) ==
    [kind |-> kind, pc |-> pc, running |-> running, sender |-> sender, jobs |-> jobs,
     handed |-> handed, loaded |-> loaded, outcome |-> outcome]

\* sender_worker.py main_loop up to its loop: the sender is made once (line
\* 70); if that raises, the program ends before its first poll.
main_loop(w, made) ==
    /\ reqs[w].pc = "idle"
    /\ reqs' = [reqs EXCEPT ![w] =
                   Worker(SenderWorker, IF made THEN "loop" ELSE "exit", TRUE, made,
                          <<>>, {}, <<>>, NULL)]
    /\ last' = Answer("run", IF made THEN "started" ELSE "no_sender", w, {})
    /\ UNCHANGED <<players, rounds, fixtures, picks, queue, updated_at>>

\* sender_worker_enhanced.py WhatsAppWorker.__init__ and run up to its loop:
\* running is True; initialize_sender (line 206) makes the sender, and run
\* returns if it cannot.
WhatsAppWorker_run(w, made) ==
    /\ reqs[w].pc = "idle"
    /\ reqs' = [reqs EXCEPT ![w] =
                   Worker(EnhancedWorker, IF made THEN "loop" ELSE "exit", TRUE, made,
                          <<>>, {}, <<>>, NULL)]
    /\ last' = Answer("run", IF made THEN "started" ELSE "no_sender", w, {})
    /\ UNCHANGED <<players, rounds, fixtures, picks, queue, updated_at>>

\* whatsapp_service.py WhatsAppService.__init__ and run up to its loop: the
\* sender is not made before the first batch arrives.
WhatsAppService_run(w) ==
    /\ reqs[w].pc = "idle"
    /\ reqs' = [reqs EXCEPT ![w] =
                   Worker(ServiceWorker, "loop", TRUE, FALSE, <<>>, {}, <<>>, NULL)]
    /\ last' = Answer("run", "started", w, {})
    /\ UNCHANGED <<players, rounds, fixtures, picks, queue, updated_at>>

\* A shutdown signal (SIGTERM or SIGINT), wherever the worker stands.
\* sender_worker_enhanced.py _signal_handler sets running to False and the
\* loop goes on to its next test of the flag. whatsapp_service.py's handler
\* calls sys.exit(0) and sender_worker.py installs no handler: the program ends
\* where it stands. A program ended while the server works on its request
\* leaves what it leaves when ended with the answer on its way.
signal_handler(w) ==
    /\ reqs[w].pc \notin {"idle", "flash", "exit"}
    /\ reqs[w].running
    /\ IF reqs[w].kind = EnhancedWorker
       THEN reqs' = [reqs EXCEPT ![w].running = FALSE]
       ELSE /\ reqs[w].pc # "get_jobs"
            /\ reqs' = [reqs EXCEPT ![w].running = FALSE, ![w].pc = "exit"]
    /\ last' = Answer("signal_handler", "ok", w, {})
    /\ UNCHANGED <<players, rounds, fixtures, picks, queue, updated_at>>

\* sender_worker_enhanced.py run, lines 211-226: the health check fails, or
\* five failures have been counted, and the sender cannot be made again; the
\* loop sleeps and starts over without a poll.
run_reinitialize_failed(w) ==
    /\ reqs[w].pc = "loop"
    /\ reqs[w].kind = EnhancedWorker
    /\ reqs[w].running
    /\ last' = Answer("initialize_sender", "failed", w, {})
    /\ UNCHANGED <<players, rounds, fixtures, picks, reqs, queue, updated_at>>

\* get_jobs (get_pending_jobs), the request: the top of the while loop with
\* running True; the server runs the query of api_queue_next.
get_jobs_query(w) ==
    /\ reqs[w].pc = "loop"
    /\ reqs[w].running
    /\ \E S \in PendingLimit(WorkerLimit) :
          reqs' = [reqs EXCEPT ![w].pc = "get_jobs",
                               ![w].loaded = [j \in S |-> queue[j].attempts]]
    /\ last' = Answer("get_jobs", "query", w, {})
    /\ UNCHANGED <<players, rounds, fixtures, picks, queue, updated_at>>

\* get_jobs, the request does not reach the server or is refused (connection
\* error or an error status): None (an empty list in whatsapp_service.py) is
\* returned and the loop sleeps and polls again.
get_jobs_error(w) ==
    /\ reqs[w].pc = "loop"
    /\ reqs[w].running
    /\ last' = Answer("get_jobs", "error", w, {})
    /\ UNCHANGED <<players, rounds, fixtures, picks, reqs, queue, updated_at>>

\* get_jobs, the server's part after its query (app.py 985-995): the loaded
\* rows are written and committed and go out as the answer, in the order of
\* the query.  If one of them is gone the server answers 500, which gives the
\* worker no job.
get_jobs_commit(w) ==
    /\ reqs[w].pc = "get_jobs"
    /\ LET S == DOMAIN reqs[w].loaded IN
       IF StaleClaim(reqs[w].loaded)
       THEN /\ reqs' = [reqs EXCEPT ![w].pc = "answer",
                                    ![w].jobs = <<>>,
                                    ![w].loaded = <<>>]
            /\ last' = Answer("get_jobs", "500", w, {})
            /\ UNCHANGED <<queue, updated_at>>
       ELSE /\ queue' = Claimed(queue, reqs[w].loaded)
            /\ \E c \in Stamps(updated_at, S) : updated_at' = Touch(updated_at, c)
            /\ \E order \in Orders(S) :
                  reqs' = [reqs EXCEPT ![w].pc = "answer",
                                       ![w].jobs = order,
                                       ![w].loaded = <<>>]
            /\ last' = Answer("get_jobs", "200", w, S)
    /\ UNCHANGED <<players, rounds, fixtures, picks>>

\* get_jobs, the answer at the worker. An answer that arrives gives the
\* batch: an empty one sends the loop back to polling, another one goes to
\* the for loop, in whatsapp_service.py by way of initialize_sender. An answer
\* that does not arrive (the 15-second timeout, a broken connection) makes
\* get_jobs return None or an empty list: the loop polls again and the rows
\* the server committed stay as they are.
get_jobs_answer(w, arrived) ==
    /\ reqs[w].pc = "answer"
    /\ reqs' = IF arrived /\ reqs[w].jobs # <<>>
               THEN [reqs EXCEPT ![w].pc = IF reqs[w].kind = ServiceWorker
                                           THEN "batch" ELSE "jobs"]
               ELSE [reqs EXCEPT ![w].pc = "loop", ![w].jobs = <<>>]
    /\ last' = Answer("get_jobs", IF arrived THEN "jobs" ELSE "lost", w, {})
    /\ UNCHANGED <<players, rounds, fixtures, picks, queue, updated_at>>

\* whatsapp_service.py initialize_sender, called with a batch in hand (line
\* 164): True at once if the sender exists; else the sender is made, and if
\* that fails the loop sleeps and polls again, the batch forgotten.
initialize_sender(w, made) ==
    /\ reqs[w].pc = "batch"
    /\ reqs[w].kind = ServiceWorker
    /\ reqs[w].sender => made
    /\ reqs' = IF made
               THEN [reqs EXCEPT ![w].pc = "jobs", ![w].sender = TRUE]
               ELSE [reqs EXCEPT ![w].pc = "loop", ![w].jobs = <<>>]
    /\ last' = Answer("initialize_sender", IF made THEN "ok" ELSE "failed", w, {})
    /\ UNCHANGED <<players, rounds, fixtures, picks, queue, updated_at>>

\* What api_queue_mark writes for an authorized report of a job, the row
\* written at the time c gives it: the store after it.
Marked(job_id, status, error, c) ==
    IF job_id \notin JobIds
    THEN [queue |-> queue, updated_at |-> updated_at, players |-> players]
    ELSE LET marked == [queue EXCEPT ![job_id].status = status,
                                     ![job_id].last_error =
                                         IF Truthy(error) THEN error ELSE @]
             owner == queue[job_id].player_id
         IN  [queue |-> marked,
              updated_at |-> IF marked[job_id] # queue[job_id]
                             THEN Touch(updated_at, c) ELSE updated_at,
              players |->
                  IF /\ status = "failed"
                     /\ owner # NULL
                     /\ consecutive_whatsapp_failures(marked, Val(owner), FailureWindow)
                           >= FailureThreshold
                     /\ Val(owner) \in PlayerIds
                  THEN [players EXCEPT ![Val(owner)].unreachable = TRUE]
                  ELSE players]

\* process_job, the first half of one pass of the for loop with running
\* True: the job at the head of the batch is handed to the sender, which
\* returns success, returns a failure with its reason or raises.
send_message(w, success, error) ==
    /\ reqs[w].pc = "jobs"
    /\ reqs[w].running
    /\ reqs' = [reqs EXCEPT ![w].pc = "report",
                            ![w].handed = @ \cup {Head(reqs[w].jobs)},
                            ![w].outcome = Some(<<success, error>>)]
    /\ last' = Answer("send_message", IF success THEN "sent" ELSE "failed", w,
                      {Head(reqs[w].jobs)})
    /\ UNCHANGED <<players, rounds, fixtures, picks, queue, updated_at>>

\* process_job, the second half: mark_job_status reports 'sent' or 'failed',
\* the error text in the body when it is not empty. reported tells whether
\* the report reached the server; the worker goes on to its next job either
\* way.
process_job(w, reported) ==
    /\ reqs[w].pc = "report"
    /\ LET job_id == Head(reqs[w].jobs)
           success == Val(reqs[w].outcome)[1]
           error == Val(reqs[w].outcome)[2]
           status == IF success THEN "sent" ELSE "failed"
       IN  /\ reqs' = [reqs EXCEPT
                          ![w].jobs = Tail(@),
                          ![w].outcome = NULL,
                          ![w].pc = IF Tail(reqs[w].jobs) = <<>> THEN "loop" ELSE "jobs"]
           /\ IF reported
              THEN \E c \in Stamps(updated_at, {job_id}) :
                      LET after == Marked(job_id, status,
                                          IF ~success /\ Truthy(error) THEN error
                                          ELSE NULL, c)
                      IN  /\ queue' = after.queue
                          /\ updated_at' = after.updated_at
                          /\ players' = after.players
              ELSE UNCHANGED <<queue, updated_at, players>>
           /\ last' = Answer("process_job", status, w, {job_id})
    /\ UNCHANGED <<rounds, fixtures, picks>>

\* sender_worker_enhanced.py run with running False: the for loop breaks
\* before its next job, the while loop ends, the sender is closed and run
\* returns.
run_exit(w) ==
    /\ reqs[w].pc \in {"loop", "jobs"}
    /\ ~reqs[w].running
    /\ reqs' = [reqs EXCEPT ![w].pc = "exit"]
    /\ last' = Answer("run", "exit", w, {})
    /\ UNCHANGED <<players, rounds, fixtures, picks, queue, updated_at>>

\* What the sender answers: success, or a failure with its reason.
SendOutcomes == {<<TRUE, NULL>>, <<FALSE, Some("timeout")>>}

\* SpecWorkers: links are queued for one player (a link request takes a slot
\* no worker runs in) while the workers run, fail to make their sender, lose
\* requests, answers and reports, and are shut down.
MaxShutdownJobs == 2

NextWorkers ==
    \/ PlayerIds = {} /\ register_player(NewName)
    \/ Len(rounds) < 1 /\ admin_create_round(Len(rounds) + 1)
    \/ /\ Len(queue) < MaxShutdownJobs
       /\ \E p \in PlayerIds : admin_send_whatsapp_link(p, TRUE)
    \/ \E w \in Workers, made \in BOOLEAN : main_loop(w, made)
    \/ \E w \in Workers, made \in BOOLEAN : WhatsAppWorker_run(w, made)
    \/ \E w \in Workers : WhatsAppService_run(w)
    \/ \E w \in Workers : run_reinitialize_failed(w)
    \/ \E w \in Workers : get_jobs_query(w)
    \/ \E w \in Workers : get_jobs_error(w)
    \/ \E w \in Workers : get_jobs_commit(w)
    \/ \E w \in Workers, arrived \in BOOLEAN : get_jobs_answer(w, arrived)
    \/ \E w \in Workers, made \in BOOLEAN : initialize_sender(w, made)
    \/ \E w \in Workers, outcome \in SendOutcomes : send_message(w, outcome[1], outcome[2])
    \/ \E w \in Workers, reported \in BOOLEAN : process_job(w, reported)
    \/ \E w \in Workers : signal_handler(w)
    \/ \E w \in Workers : run_exit(w)
    \/ \E i \in 1..MaxReqs : flash(i)

SpecWorkers == Init /\ [][NextWorkers]_vars

\* The steps of worker w while the API answers, every answer and every report
\* arrives and no signal is sent.
WorkerStart(w) ==
    \/ main_loop(w, TRUE)
    \/ WhatsAppWorker_run(w, TRUE)
    \/ WhatsAppService_run(w)

WorkerSend(w) == \E outcome \in SendOutcomes : send_message(w, outcome[1], outcome[2])

WorkerLoop(w) ==
    \/ WorkerStart(w)
    \/ run_reinitialize_failed(w)
    \/ get_jobs_query(w)
    \/ get_jobs_commit(w)
    \/ get_jobs_answer(w, TRUE)
    \/ \E made \in BOOLEAN : initialize_sender(w, made)
    \/ WorkerSend(w)
    \/ process_job(w, TRUE)

\* SpecWorkersLive: one worker of any of the three programs has its sender,
\* keeps polling, the API stays reachable, every report arrives and the
\* worker is not shut down. Each step of its loop is taken if it stays
\* possible: the sleeps of the loop end, the server answers, the sender
\* returns. Whether the sender of whatsapp_service.py can be made is left
\* open each time it is tried.
NextWorkersLive ==
    \/ PlayerIds = {} /\ register_player(NewName)
    \/ Len(rounds) < 1 /\ admin_create_round(Len(rounds) + 1)
    \/ /\ Len(queue) < MaxWorkerJobs
       /\ \E p \in PlayerIds : admin_send_whatsapp_link(p, TRUE)
    \/ WorkerLoop(1)
    \/ \E i \in 1..MaxReqs : flash(i)

SpecWorkersLive ==
    /\ Init
    /\ [][NextWorkersLive]_vars
    /\ WF_vars(\E i \in 1..MaxReqs : flash(i))
    /\ WF_vars(WorkerStart(1))
    /\ WF_vars(get_jobs_query(1))
    /\ WF_vars(get_jobs_commit(1))
    /\ WF_vars(get_jobs_answer(1, TRUE))
    /\ WF_vars(\E made \in BOOLEAN : initialize_sender(1, made))
    /\ WF_vars(WorkerSend(1))
    /\ WF_vars(process_job(1, TRUE))

\* ------------------------------------------------------------ the tokens
\* MaxTokenId: the player and round ids tokens are made for run from 1 to it.
MaxTokenId == 2

\* The URL-safe base64 alphabet, value v at index v + 1.
B64 == <<"A", "B", "C", "D", "E", "F", "G", "H", "I", "J", "K", "L", "M", "N", "O", "P",
        "Q", "R", "S", "T", "U", "V", "W", "X", "Y", "Z", "a", "b", "c", "d", "e", "f",
        "g", "h", "i", "j", "k", "l", "m", "n", "o", "p", "q", "r", "s", "t", "u", "v",
        "w", "x", "y", "z", "0", "1", "2", "3", "4", "5", "6", "7", "8", "9", "-", "_">>

\* The value of a character for the decoder: the standard alphabet's '+' and
\* '/' are taken as well; -1 for a character the decoder discards.
B64Index == [c \in {B64[i] : i \in 1..64} |-> CHOOSE i \in 1..64 : B64[i] = c]
B64Value(c) ==
    IF c \in DOMAIN B64Index THEN B64Index[c] - 1
    ELSE IF c = "+" THEN 62
    ELSE IF c = "/" THEN 63
    ELSE -1

\* itsdangerous base64_encode: urlsafe_b64encode with the '=' padding stripped.
RECURSIVE base64_encode(_)
base64_encode(bytes) ==
    IF bytes = <<>> THEN <<>>
    ELSE IF Len(bytes) = 1
    THEN <<B64[(bytes[1] \div 4) + 1], B64[(bytes[1] % 4) * 16 + 1]>>
    ELSE IF Len(bytes) = 2
    THEN <<B64[(bytes[1] \div 4) + 1],
           B64[(bytes[1] % 4) * 16 + (bytes[2] \div 16) + 1],
           B64[(bytes[2] % 16) * 4 + 1]>>
    ELSE <<B64[(bytes[1] \div 4) + 1],
           B64[(bytes[1] % 4) * 16 + (bytes[2] \div 16) + 1],
           B64[(bytes[2] % 16) * 4 + (bytes[3] \div 64) + 1],
           B64[(bytes[3] % 64) + 1]>> \o base64_encode(SubSeq(bytes, 4, Len(bytes)))

\* The bytes of a run of 6-bit values; the bits left over at the end are
\* dropped.
RECURSIVE SextetBytes(_)
SextetBytes(v) ==
    IF Len(v) < 2 THEN <<>>
    ELSE IF Len(v) = 2 THEN <<v[1] * 4 + (v[2] \div 16)>>
    ELSE IF Len(v) = 3 THEN <<v[1] * 4 + (v[2] \div 16), (v[2] % 16) * 16 + (v[3] \div 4)>>
    ELSE <<v[1] * 4 + (v[2] \div 16), (v[2] % 16) * 16 + (v[3] \div 4),
           (v[3] % 4) * 64 + v[4]>> \o SextetBytes(SubSeq(v, 5, Len(v)))

\* itsdangerous base64_decode of a text without '=': the padding its length
\* asks for is added, then urlsafe_b64decode drops the characters outside the
\* alphabet and fails if the padding does not fit what is left. NULL for a
\* failure.
base64_decode(text) ==
    LET pads == (4 - (Len(text) % 4)) % 4
        data == SelectSeq(text, LAMBDA c : B64Value(c) >= 0)
        k == Len(data) % 4
    IN  IF k = 1 \/ (k = 2 /\ pads < 2) \/ (k = 3 /\ pads < 1) THEN NULL
        ELSE Some(SextetBytes([i \in 1..Len(data) |-> B64Value(data[i])]))

\* The ASCII codes of the characters of the JSON texts.
AsciiChars == <<"{", "}", "\"", ":", ",", "p", "r",
                "0", "1", "2", "3", "4", "5", "6", "7", "8", "9">>
AsciiCodes == <<123, 125, 34, 58, 44, 112, 114,
                48, 49, 50, 51, 52, 53, 54, 55, 56, 57>>
Ord(c) == AsciiCodes[CHOOSE i \in 1..Len(AsciiChars) : AsciiChars[i] = c]
Chr(b) ==
    IF \E i \in 1..Len(AsciiCodes) : AsciiCodes[i] = b
    THEN AsciiChars[CHOOSE i \in 1..Len(AsciiCodes) : AsciiCodes[i] = b]
    ELSE "?"

\* json.dumps(obj, separators=(',', ':')) of a dict of one-digit numbers,
\* given as its <<key, value>> pairs in order.
RECURSIVE JsonItems(_)
JsonItems(pairs) ==
    IF pairs = <<>> THEN <<>>
    ELSE <<"\"", Head(pairs)[1], "\"", ":">> \o Str(Head(pairs)[2])
         \o (IF Len(pairs) > 1 THEN <<",">> ELSE <<>>) \o JsonItems(Tail(pairs))

JsonDumps(pairs) == <<"{">> \o JsonItems(pairs) \o <<"}">>

\* str.split(sep) for a one-character separator.
\* One "key":digit member of a JSON text.
IsJsonItem(item) ==
    /\ Len(item) = 5
    /\ item[1] = "\""
    /\ item[3] = "\""
    /\ item[4] = ":"
    /\ IsDigit(<<item[5]>>)

\* json.loads of such a text: its <<key, value>> pairs, NULL for a text that
\* is no JSON object of this kind.
JsonLoads(text) ==
    IF Len(text) < 2 \/ Head(text) # "{" \/ text[Len(text)] # "}" THEN NULL
    ELSE LET items == Split(SubSeq(text, 2, Len(text) - 1), ",")
         IN  IF \E i \in 1..Len(items) : ~IsJsonItem(items[i]) THEN NULL
             ELSE Some([i \in 1..Len(items) |->
                          <<items[i][2],
                            CHOOSE d \in 1..Len(Digits) : Digits[d] = items[i][5]>>])

\* dict.get(key): NULL (None) for a key the object lacks.
DictGet(pairs, key) ==
    IF \E i \in 1..Len(pairs) : pairs[i][1] = key
    THEN Some(pairs[CHOOSE i \in 1..Len(pairs) : pairs[i][1] = key][2])
    ELSE NULL

\* The two serializers of app.py, told apart by their salt.
PickLinkSalt == "pick-link"
MyPicksLinkSalt == "my-picks-link"

\* The digest the signer computes over a signed text with the key derived
\* from SECRET_KEY and the salt: HMAC-SHA1 gives 20 bytes whatever the length
\* of the text. It is stood for by the two bytes of the salt and 18 bytes of
\* the text (DigestByte), so that two digests are equal only for the same
\* salt and text: every signed text of the model has at most 18 characters.
SaltBytes(salt) == IF salt = PickLinkSalt THEN <<1, 1>> ELSE <<2, 2>>

\* The byte of a character of a signed text (str.encode): its ASCII code,
\* every character its own; '?' stands for the characters no token of the
\* model holds.
CharByte(c) ==
    LET v == B64Value(c) IN
    IF v < 0 THEN (IF c = "." THEN 46 ELSE IF c = "!" THEN 33 ELSE 63)
    ELSE IF v < 26 THEN v + 65
    ELSE IF v < 52 THEN v + 71
    ELSE IF v < 62 THEN v - 4
    ELSE IF c = "+" THEN 43
    ELSE IF c = "/" THEN 47
    ELSE IF c = "-" THEN 45
    ELSE 95

\* Byte k of the 18 text bytes of the digest: the byte of character k, 0
\* past the end of the text; the characters beyond the 18th are folded onto
\* the first ones.
RECURSIVE DigestByte(_, _)
DigestByte(value, k) ==
    IF k > Len(value) THEN 0
    ELSE (CharByte(value[k]) + DigestByte(value, k + 18)) % 256

\* Mutant of get_signature: the salt does not enter the digest.
get_signature_nosalt(salt, value) == <<1, 1>> \o [k \in 1..18 |-> DigestByte(value, k)]

\* Signer.get_signature before its base64 encoding: always 20 bytes.
get_signature(salt, value) == SaltBytes(salt) \o [k \in 1..18 |-> DigestByte(value, k)]

\* Signer.verify_signature: the signature is base64-decoded and compared
\* with the digest of the value.
verify_signature(salt, value, sig) ==
    LET decoded == base64_decode(sig)
    IN  decoded # NULL /\ Val(decoded) = get_signature(salt, value)

\* URLSafeSerializer.dumps: the JSON text in base64, '.', the signature in
\* base64.
dumps(salt, pairs) ==
    LET text == JsonDumps(pairs)
        value == base64_encode([i \in 1..Len(text) |-> Ord(text[i])])
    IN  value \o <<".">> \o base64_encode(get_signature(salt, value))

\* URLSafeSerializer.loads: Signer.unsign splits at the last '.', verifies
\* the signature, and the payload is decoded; error is 'BadSignature',
\* 'BadPayload' or '' with the object loaded.
Loaded(error, data) == [error |-> error, data |-> data]

loads(salt, token) ==
    IF \A i \in 1..Len(token) : token[i] # "." THEN Loaded("BadSignature", <<>>)
    ELSE LET dot == CHOOSE k \in 1..Len(token) :
                       token[k] = "." /\ \A m \in (k + 1)..Len(token) : token[m] # "."
             value == SubSeq(token, 1, dot - 1)
             sig == SubSeq(token, dot + 1, Len(token))
             bytes == base64_decode(value)
         IN  IF ~verify_signature(salt, value, sig) THEN Loaded("BadSignature", <<>>)
             ELSE IF bytes = NULL THEN Loaded("BadPayload", <<>>)
             ELSE LET obj == JsonLoads([i \in 1..Len(Val(bytes)) |-> Chr(Val(bytes)[i])])
                  IN  IF obj = NULL THEN Loaded("BadPayload", <<>>)
                      ELSE Loaded("", Val(obj))

\* app.py make_pick_token and make_my_picks_token.
make_pick_token(player_id, round_id) ==
    dumps(PickLinkSalt, <<<<"p", player_id>>, <<"r", round_id>>>>)

make_my_picks_token(player_id) == dumps(MyPicksLinkSalt, <<<<"p", player_id>>>>)

\* What a parse function gives: the ids it returns (NULL for None), or the
\* exception it lets through.
Parsed(player_id, round_id, raised) ==
    [player_id |-> player_id, round_id |-> round_id, raised |-> raised]

\* Mutant of parse_pick_token: the two ids are returned in the other order.
parse_pick_token_swapped(token) ==
    LET data == loads(PickLinkSalt, token) IN
    IF data.error = "BadSignature" THEN Parsed(NULL, NULL, "")
    ELSE IF data.error # "" THEN Parsed(NULL, NULL, data.error)
    ELSE IF DictGet(data.data, "p") = NULL \/ DictGet(data.data, "r") = NULL
    THEN Parsed(NULL, NULL, "TypeError")
    ELSE Parsed(DictGet(data.data, "r"), DictGet(data.data, "p"), "")

\* app.py parse_pick_token: (None, None) on BadSignature; BadPayload, and
\* the TypeError of int(None) for a missing key, are not caught.
parse_pick_token(token) ==
    LET data == loads(PickLinkSalt, token) IN
    IF data.error = "BadSignature" THEN Parsed(NULL, NULL, "")
    ELSE IF data.error # "" THEN Parsed(NULL, NULL, data.error)
    ELSE IF DictGet(data.data, "p") = NULL \/ DictGet(data.data, "r") = NULL
    THEN Parsed(NULL, NULL, "TypeError")
    ELSE Parsed(DictGet(data.data, "p"), DictGet(data.data, "r"), "")

\* app.py parse_my_picks_token.
parse_my_picks_token(token) ==
    LET data == loads(MyPicksLinkSalt, token) IN
    IF data.error = "BadSignature" THEN Parsed(NULL, NULL, "")
    ELSE IF data.error # "" THEN Parsed(NULL, NULL, data.error)
    ELSE IF DictGet(data.data, "p") = NULL THEN Parsed(NULL, NULL, "TypeError")
    ELSE Parsed(DictGet(data.data, "p"), NULL, "")

\* The tokens handed to the decoders and the routes: the tokens of both
\* kinds, the first token of each kind with one character replaced (by the
\* next character of the alphabet, or by '!'), and two texts that are no
\* tokens.
TokenIds == 1..MaxTokenId
IssuedPickTokens == {make_pick_token(p, r) : p \in TokenIds, r \in TokenIds}
IssuedMyPicksTokens == {make_my_picks_token(p) : p \in TokenIds}
NextChar(c) == IF B64Value(c) >= 0 THEN B64[((B64Value(c) + 1) % 64) + 1] ELSE "A"
OneCharChanged(token) ==
    UNION {{[token EXCEPT ![i] = NextChar(token[i])], [token EXCEPT ![i] = "!"]} :
              i \in 1..Len(token)}
IssuedTokens == IssuedPickTokens \cup IssuedMyPicksTokens
TokenInputs ==
    IssuedTokens \cup OneCharChanged(make_pick_token(1, 1))
        \cup OneCharChanged(make_my_picks_token(1)) \cup {EmptyStr, <<"e", "y", "J">>}
RouteTokens == IssuedTokens \cup OneCharChanged(make_pick_token(1, 1)) \cup {EmptyStr}
MyPicksRouteTokens ==
    IssuedTokens \cup OneCharChanged(make_my_picks_token(1)) \cup {EmptyStr}

\* A token function called on its own; the answer records what it returned.
call_make_pick_token(player_id, round_id) ==
    /\ last' = Answer("make_pick_token", make_pick_token(player_id, round_id),
                      player_id, round_id)
    /\ UNCHANGED <<players, rounds, fixtures, picks, reqs, queue, updated_at>>

call_make_my_picks_token(player_id) ==
    /\ last' = Answer("make_my_picks_token", make_my_picks_token(player_id), player_id, 0)
    /\ UNCHANGED <<players, rounds, fixtures, picks, reqs, queue, updated_at>>

call_parse_pick_token(token) ==
    /\ last' = Answer("parse_pick_token", parse_pick_token(token), token, 0)
    /\ UNCHANGED <<players, rounds, fixtures, picks, reqs, queue, updated_at>>

call_parse_my_picks_token(token) ==
    /\ last' = Answer("parse_my_picks_token", parse_my_picks_token(token), token, 0)
    /\ UNCHANGED <<players, rounds, fixtures, picks, reqs, queue, updated_at>>

\* app.py pick_with_token (POST /l/<token>) from the token of the URL: the
\* token is parsed (line 390), then the handler goes on as pick_with_token
\* above, up to its commit; an exception out of the parse is a 500.
pick_with_token_link(token, team_picked) ==
    \E parsed \in {parse_pick_token(token)} :
    LET tok == IF parsed.player_id = NULL \/ parsed.round_id = NULL THEN NULL
               ELSE Some(<<Val(parsed.player_id), Val(parsed.round_id)>>)
        answer == IF parsed.raised # "" THEN "500"
                  ELSE pick_with_token_answer(tok, team_picked)
    IN  /\ UNCHANGED <<players, rounds, fixtures, queue, updated_at>>
        /\ IF answer = "insert"
           THEN /\ FreeSlots # {}
                /\ picks' = Append(picks, NewPick(Val(tok)[1], Val(tok)[2], team_picked))
                /\ reqs' = [reqs EXCEPT ![FreeSlot] =
                               Flash("pick_with_token_link", Some(Val(tok)[1]),
                                     Some(Val(tok)[2]), FALSE, token, Val(tok))]
                /\ last' = Answer("pick_with_token_link", "submitted", token, Val(tok))
           ELSE /\ last' = Answer("pick_with_token_link", answer, token, <<>>)
                /\ UNCHANGED <<picks, reqs>>

\* app.py my_picks (GET /my_picks/<token>): the page of the player the token
\* names.
my_picks(token) ==
    \E parsed \in {parse_my_picks_token(token)} :
    LET answer == IF parsed.raised # "" THEN "500"
                  ELSE IF parsed.player_id = NULL THEN "InvalidLink"
                  ELSE IF Val(parsed.player_id) \notin PlayerIds THEN "404"
                  ELSE "ok"
    IN  /\ last' = Answer("my_picks", answer, token,
                          IF answer = "ok" THEN <<Val(parsed.player_id)>> ELSE <<>>)
        /\ UNCHANGED <<players, rounds, fixtures, picks, reqs, queue, updated_at>>

\* SpecToken: the token functions and the two token routes, over a store of
\* at most one player and one round, one call or request at a time.
NextToken ==
    \/ Quiet /\ PlayerIds = {} /\ register_player(NewName)
    \/ Quiet /\ Len(rounds) < 1 /\ admin_create_round(Len(rounds) + 1)
    \/ Quiet /\ \E p \in TokenIds, r \in TokenIds : call_make_pick_token(p, r)
    \/ Quiet /\ \E p \in TokenIds : call_make_my_picks_token(p)
    \/ Quiet /\ \E token \in TokenInputs : call_parse_pick_token(token)
    \/ Quiet /\ \E token \in MyPicksRouteTokens : call_parse_my_picks_token(token)
    \/ Quiet /\ \E token \in RouteTokens : pick_with_token_link(token, Ars)
    \/ Quiet /\ \E token \in MyPicksRouteTokens : my_picks(token)
    \/ \E i \in 1..MaxReqs : flash(i)

SpecToken == Init /\ [][NextToken]_vars

\* ------------------------------------------------- the outcome functions
\* SpecFn: fixture_decision and pick_outcome_for_fixture applied to one
\* fixture row and one pick row drawn from the sets below.
FnStatuses == {"completed", "FT", "AET", "PEN", "scheduled", "NS", "PST", "postponed"}
FnScores == {NULL} \cup {Some(n) : n \in 0..MaxScore}
FnTeams == {Ars, ArsLow, Che, Liv}

FnFixtures ==
    {[round_id |-> Some(1), event_id |-> Str(1),
      home_team |-> Ars, away_team |-> Che,
      home_score |-> hs, away_score |-> as, status |-> st] :
        hs \in FnScores, as \in FnScores, st \in FnStatuses}

InitFn ==
    /\ players = <<>>
    /\ rounds = <<>>
    /\ \E fix \in FnFixtures : fixtures = <<fix>>
    /\ \E team \in FnTeams : picks = <<NewPick(1, 1, team)>>
    /\ reqs = [i \in 1..MaxReqs |-> Idle]
    /\ last = Answer("init", "ok", 0, 0)
    /\ queue = <<>>
    /\ updated_at = <<>>

\* fixture_decision(fix) on the fixture row.
call_fixture_decision ==
    /\ last' = Answer("fixture_decision", fixture_decision(fixtures[1]), 1, 0)
    /\ UNCHANGED <<players, rounds, fixtures, picks, reqs, queue, updated_at>>

\* pick_outcome_for_fixture(pick, fix) on the pick row and the fixture row.
call_pick_outcome_for_fixture ==
    /\ last' = Answer("pick_outcome_for_fixture",
                      pick_outcome_for_fixture(picks[1], fixtures[1]), 1, 1)
    /\ UNCHANGED <<players, rounds, fixtures, picks, reqs, queue, updated_at>>

NextFn ==
    \/ call_fixture_decision
    \/ call_pick_outcome_for_fixture

SpecFn == InitFn /\ [][NextFn]_vars

\* ---------------------------------------------------------------- claims
PickOps == {"pick_with_token", "submit_pick"}
CloseOps == {"admin_process_round", "admin_auto_update_and_process_round"}

\* The answers of a close that has looked at the round's fixtures, and what
\* the steps of the one-click route before that record.
CloseAnswers == {"processed", "undecided"}
CloseWaits == {"api", "results_saved"}

\* The fixture rows the close answering in this step has written itself, in
\* its commit of the API results.
ClaimWrote ==
    UNION {reqs[i].wrote : i \in {k \in 1..MaxReqs : /\ reqs[k].pc = "process"
                                                     /\ reqs'[k].pc = "idle"}}

\* The picks of a participant, and a participant's picks of a round.
PicksOf(pk, p) == {i \in DOMAIN pk : pk[i].player_id = p}

\* C1: at most one Pick exists for each (participant, round) pair, also after
\* concurrent submissions for the same participant and round.
C1_OnePickPerParticipantRound ==
    \A i, j \in PickIds :
        i # j => ~(/\ picks[i].player_id = picks[j].player_id
                   /\ picks[i].round_id = picks[j].round_id)

\* C2: no two Picks of one participant have the same team after case and
\* whitespace normalisation.  Stated for picks of different rounds, the case
\* the no-repeat rule is about; the claim covers it.
C2_NoRepeatedTeam ==
    \A i, j \in PickIds :
        (/\ i # j
         /\ picks[i].player_id = picks[j].player_id
         /\ picks[i].round_id # picks[j].round_id)
        => normalize_team(picks[i].team_picked) # normalize_team(picks[j].team_picked)

\* C3: a participant whose status is eliminated never acquires a new Pick: no
\* step adds a Pick for a participant who is eliminated when the step is taken.
C3_EliminatedGainsNoPick ==
    [][\A p \in PlayerIds :
          players[p].status = "eliminated" => PicksOf(picks', p) \subseteq PicksOf(picks, p)]_vars

\* C4: no Pick is ever committed for a round whose status is not open: every
\* Pick a step adds belongs to a round that is open when the step is taken.
C4_PickOnlyInOpenRound ==
    [][\A i \in DOMAIN picks' :
          i \notin DOMAIN picks =>
              /\ picks'[i].round_id \in RoundIds
              /\ rounds[picks'[i].round_id].status = "open"]_vars

\* The step is the message of a request that has committed.
ClaimFlashed == \E k \in 1..MaxReqs : reqs[k].pc = "flash" /\ reqs'[k].pc = "idle"

\* C5: a submission for a (participant, round) that already has a Pick is
\* answered DuplicatePick (the round being open and the participant active, so
\* that no earlier check answers), and no submission changes a stored Pick;
\* the message of a submission that has stored its Pick is no new submission.
C5_DuplicatePickRefused ==
    [][last'.op \in PickOps =>
          /\ \A i \in PickIds : i \in DOMAIN picks' /\ picks'[i] = picks[i]
          /\ LET p == last'.n
                 r == last'.arg
             IN  (/\ ~ClaimFlashed
                  /\ p \in PlayerIds
                  /\ r \in RoundIds
                  /\ rounds[r].status = "open"
                  /\ players[p].status = "active"
                  /\ \E i \in PickIds : picks[i].player_id = p /\ picks[i].round_id = r)
                 => last'.result = "DuplicatePick" /\ picks' = picks]_vars

\* A second submission for the same participant and round was refused, the
\* stored pick still there.
C5_Witness ==
    /\ last.op \in PickOps
    /\ last.result = "DuplicatePick"
    /\ \E i \in PickIds : picks[i].player_id = last.n /\ picks[i].round_id = last.arg

\* C6: a round's status goes from open to completed only, by a successful
\* close of that round and by nothing else; a completed round stays completed
\* under every operation, a later close included.
C6_RoundClosedOnce ==
    [][\A r \in RoundIds :
          r \in DOMAIN rounds' =>
              /\ rounds[r].status = "completed" => rounds'[r].status = "completed"
              /\ rounds'[r].status # rounds[r].status =>
                     /\ rounds[r].status = "open"
                     /\ rounds'[r].status = "completed"
                     /\ last'.op \in CloseOps
                     /\ last'.arg = r
                     /\ last'.result = "processed"]_vars

\* A close was invoked on a round that is already completed and now has an
\* undecided fixture: the round stays completed.
C6_Witness ==
    /\ last.op \in CloseOps
    /\ last.result = "undecided"
    /\ last.arg \in RoundIds
    /\ rounds[last.arg].status = "completed"

\* The claims' own reading of the fixture rules: a fixture is decided when its
\* status is final and both scores are there; a decided fixture gives the pick
\* WIN when the picked team is the side with more goals, else LOSE.
ClaimDecided(fix) ==
    /\ fix.status \in {"completed", "FT", "AET", "PEN"}
    /\ fix.home_score # NULL
    /\ fix.away_score # NULL

ClaimBlocking(fx, r) ==
    {f \in DOMAIN fx : /\ fx[f].round_id = Some(r)
                       /\ ~ClaimDecided(fx[f])
                       /\ fx[f].status \notin {"PST", "P", "postponed", "cancelled"}}

ClaimJudge(pick, fix) ==
    LET team == normalize_team(pick.team_picked) IN
    IF ~ClaimDecided(fix) THEN "PENDING"
    ELSE IF /\ Val(fix.home_score) > Val(fix.away_score)
            /\ team = normalize_team(fix.home_team) THEN "WIN"
    ELSE IF /\ Val(fix.away_score) > Val(fix.home_score)
            /\ team = normalize_team(fix.away_team) THEN "WIN"
    ELSE "LOSE"

ClaimMatches(fx, r, pick) ==
    {f \in DOMAIN fx : /\ fx[f].round_id = Some(r)
                       /\ normalize_team(pick.team_picked) \in
                              {normalize_team(fx[f].home_team), normalize_team(fx[f].away_team)}}

\* C7 as stated: a close of a round that has a fixture neither decided nor
\* abandoned (the fixtures taken as the close sees them) fails with the count
\* of such fixtures and has changed nothing, no fixture either.
C7_FailedCloseChangesNothing ==
    [][(/\ last'.op \in CloseOps
        /\ last'.result \in CloseAnswers
        /\ last'.arg \in RoundIds
        /\ ClaimBlocking(fixtures', last'.arg) # {})
       => /\ last'.result = "undecided"
          /\ last'.n = Cardinality(ClaimBlocking(fixtures', last'.arg))
          /\ UNCHANGED <<picks, players, rounds, fixtures>>
          /\ ClaimWrote = {}]_vars

\* C7 amended: the fixtures are checked as they are after the one-click
\* route's API update, which stays committed; a close of a round that then has
\* a fixture neither decided nor abandoned fails with their count and changes
\* no pick, no participant and no round, and admin_process_round changes no
\* fixture.
C7_FailedCloseKeepsPicksPlayersRound ==
    [][(/\ last'.op \in CloseOps
        /\ last'.result \in CloseAnswers
        /\ last'.arg \in RoundIds
        /\ ClaimBlocking(fixtures', last'.arg) # {})
       => /\ last'.result = "undecided"
          /\ last'.n = Cardinality(ClaimBlocking(fixtures', last'.arg))
          /\ UNCHANGED <<picks, players, rounds>>
          /\ last'.op = "admin_process_round" => fixtures' = fixtures]_vars

\* The one-click route failed on a fixture the API reports as not started,
\* with an unjudged pick in the round.
C7_Witness ==
    /\ last.op = "admin_auto_update_and_process_round"
    /\ last.result = "undecided"
    /\ last.n = 1
    /\ \E f \in FixtureIds : fixtures[f].round_id = Some(last.arg) /\ fixtures[f].status = "NS"
    /\ \E i \in PickIds : picks[i].round_id = last.arg /\ picks[i].is_winner = NULL

\* C8: a close that follows a successful close of the same round (one that
\* was committed and answered with its success message), the fixtures being
\* the same, changes no pick, no participant and no round, and is a success
\* again.
C8_CloseIdempotent ==
    [][(/\ last.op \in CloseOps
        /\ last.result = "success"
        /\ last'.op \in CloseOps
        /\ last'.result \notin CloseWaits
        /\ last'.arg = last.arg
        /\ fixtures' = fixtures)
       => /\ picks' = picks
          /\ players' = players
          /\ rounds' = rounds
          /\ last'.result = "processed"]_vars

\* A close pass that found nothing to judge in a round with a losing pick: a
\* pass after the one that judged it.
C8_Witness ==
    /\ last.op \in CloseOps
    /\ last.result = "processed"
    /\ last.n = 0
    /\ \E i \in PickIds :
          /\ picks[i].round_id = last.arg
          /\ picks[i].is_winner = Some(FALSE)
          /\ players[picks[i].player_id].status = "eliminated"

\* C9: once a pick's is_winner is set, no step changes it.
C9_IsWinnerWrittenOnce ==
    [][\A i \in PickIds :
          (i \in DOMAIN picks' /\ picks[i].is_winner # NULL)
          => picks'[i].is_winner = picks[i].is_winner]_vars

\* A close pass ran on a round where a pick judged a winner would now be judged
\* a loser, its fixture's result having changed since.
C9_Witness ==
    /\ last.op \in CloseOps
    /\ last.result = "processed"
    /\ \E i \in PickIds :
          /\ picks[i].round_id = last.arg
          /\ picks[i].is_winner = Some(TRUE)
          /\ \E f \in ClaimMatches(fixtures, last.arg, picks[i]) :
                ClaimJudge(picks[i], fixtures[f]) = "LOSE"

\* C10: a successful close sets every unjudged pick of the round whose team
\* plays in a fixture of the round from the outcome on such a fixture: WIN
\* gives is_winner true and leaves the participant's status, LOSE gives
\* is_winner false and an eliminated participant; the round ends completed.
C10_CloseJudgesPicks ==
    [][(/\ last'.op \in CloseOps
        /\ last'.result = "processed")
       => LET r == last'.arg IN
          /\ rounds'[r].status = "completed"
          /\ \A i \in PickIds :
                (/\ picks[i].round_id = r
                 /\ picks[i].is_winner = NULL
                 /\ ClaimMatches(fixtures', r, picks[i]) # {})
                => \E f \in ClaimMatches(fixtures', r, picks[i]) :
                      LET outcome == ClaimJudge(picks[i], fixtures'[f])
                          p == picks[i].player_id
                      IN  /\ outcome = "WIN" =>
                                /\ picks'[i].is_winner = Some(TRUE)
                                /\ players'[p].status = players[p].status
                          /\ outcome = "LOSE" =>
                                /\ picks'[i].is_winner = Some(FALSE)
                                /\ players'[p].status = "eliminated"
                          /\ outcome = "PENDING" => picks'[i].is_winner = NULL]_vars

\* A close pass has just judged a losing pick: the pick lost, its participant
\* is eliminated and the round is completed.
C10_Witness ==
    /\ last.op \in CloseOps
    /\ last.result = "processed"
    /\ last.n = 1
    /\ rounds[last.arg].status = "completed"
    /\ \E i \in PickIds :
          /\ picks[i].round_id = last.arg
          /\ picks[i].is_winner = Some(FALSE)
          /\ players[picks[i].player_id].status = "eliminated"
          /\ \E f \in ClaimMatches(fixtures, last.arg, picks[i]) :
                ClaimJudge(picks[i], fixtures[f]) = "LOSE"

\* C11: a successful close leaves a pick that cannot be judged as it is: when
\* no fixture of the round names the pick's team, or every fixture naming it
\* gives PENDING, is_winner stays null and the participant's status stays;
\* the round is completed all the same.
C11_UnjudgeablePickStaysPending ==
    [][(/\ last'.op \in CloseOps
        /\ last'.result = "processed")
       => LET r == last'.arg IN
          /\ rounds'[r].status = "completed"
          /\ \A i \in PickIds :
                (/\ picks[i].round_id = r
                 /\ picks[i].is_winner = NULL
                 /\ \A f \in ClaimMatches(fixtures', r, picks[i]) :
                       ClaimJudge(picks[i], fixtures'[f]) = "PENDING")
                => /\ picks'[i].is_winner = NULL
                   /\ players'[picks[i].player_id].status =
                          players[picks[i].player_id].status]_vars

\* A round was closed with a pick on a team whose fixture is postponed: the
\* pick is still unjudged, its participant still active.
C11_Witness ==
    /\ last.op \in CloseOps
    /\ last.result = "processed"
    /\ rounds[last.arg].status = "completed"
    /\ \E i \in PickIds :
          /\ picks[i].round_id = last.arg
          /\ picks[i].is_winner = NULL
          /\ players[picks[i].player_id].status = "active"
          /\ \E f \in ClaimMatches(fixtures, last.arg, picks[i]) :
                fixtures[f].status = "postponed"

\* C12: fixture_decision answers undecided (None) unless the status is one of
\* completed, FT, AET, PEN and both scores are there; then it answers HOME,
\* AWAY or DRAW as home_score is greater than, less than or equal to away_score.
C12_FixtureDecision ==
    last.op = "fixture_decision" =>
        LET fix == fixtures[1] IN
        IF /\ fix.status \in {"completed", "FT", "AET", "PEN"}
           /\ fix.home_score # NULL
           /\ fix.away_score # NULL
        THEN /\ Val(fix.home_score) > Val(fix.away_score) => last.result = Some("HOME")
             /\ Val(fix.home_score) < Val(fix.away_score) => last.result = Some("AWAY")
             /\ Val(fix.home_score) = Val(fix.away_score) => last.result = Some("DRAW")
        ELSE last.result = NULL

\* fixture_decision answered undecided for a fixture with both scores whose
\* status is not final.
C12_Witness ==
    /\ last.op = "fixture_decision"
    /\ last.result = NULL
    /\ fixtures[1].status = "NS"
    /\ fixtures[1].home_score = Some(1)
    /\ fixtures[1].away_score = Some(0)

\* C13: pick_outcome_for_fixture answers PENDING exactly when the fixture is
\* undecided; on a decided fixture it answers WIN exactly when the pick's
\* normalised team is the normalised name of the winning side, and LOSE
\* otherwise, a draw always giving LOSE.
C13_PickOutcome ==
    last.op = "pick_outcome_for_fixture" =>
        LET fix == fixtures[1]
            team == normalize_team(picks[1].team_picked)
            homeWins == Val(fix.home_score) > Val(fix.away_score)
            awayWins == Val(fix.away_score) > Val(fix.home_score)
        IN  /\ last.result \in {"WIN", "LOSE", "PENDING"}
            /\ last.result = "PENDING" <=> ~ClaimDecided(fix)
            /\ ClaimDecided(fix) =>
                  /\ last.result = "WIN" <=>
                        \/ homeWins /\ team = normalize_team(fix.home_team)
                        \/ awayWins /\ team = normalize_team(fix.away_team)
                  /\ (~homeWins /\ ~awayWins) => last.result = "LOSE"

\* The pick ' ars' wins on Ars v Che decided for the home side.
C13_Witness ==
    /\ last.op = "pick_outcome_for_fixture"
    /\ last.result = "WIN"
    /\ picks[1].team_picked = ArsLow
    /\ fixtures[1].home_team = Ars
    /\ fixture_decision(fixtures[1]) = Some("HOME")

\* The claims' reading of the worker API: the answers of the two routes, the
\* statuses of a job, and the header that presents the configured token.
QueueOps == {"api_queue_next", "api_queue_mark"}
JobStatuses == {"pending", "in_progress", "sent", "failed"}
FinishedStatuses == {"sent", "failed"}
ClaimAuthorized(auth_header) == auth_header = Bearer \o WORKER_API_TOKEN

\* C14: concurrent claims never return the same job to two callers: every job
\* a claim returns was pending, so handed to no caller, until that answer.
C14_ClaimsDisjoint ==
    [][(/\ last'.op = "api_queue_next"
        /\ last'.result = "200")
       => \A j \in last'.n : queue[j].status = "pending"]_vars

\* C15: a claim returns at most max_count jobs, each pending before the call
\* and afterwards in_progress with attempts one higher; no other job changes.
C15_ClaimSelectsPending ==
    [][(/\ last'.op = "api_queue_next"
        /\ last'.result = "200")
       => LET S == last'.n IN
          /\ Cardinality(S) <= last'.arg.limit
          /\ S \subseteq JobIds
          /\ DOMAIN queue' = JobIds
          /\ \A j \in S :
                /\ queue[j].status = "pending"
                /\ queue'[j] = [queue[j] EXCEPT !.status = "in_progress",
                                                !.attempts = queue[j].attempts + 1]
          /\ \A j \in JobIds \ S : queue'[j] = queue[j]]_vars

\* A claim with limit 1 returned one of two pending jobs: it is in_progress
\* with one attempt, the other is still pending with none.
C15_Witness ==
    /\ last.op = "api_queue_next"
    /\ last.result = "200"
    /\ last.arg.limit = 1
    /\ \E j \in last.n, k \in JobIds \ last.n :
          /\ queue[j].status = "in_progress"
          /\ queue[j].attempts = 1
          /\ queue[k].status = "pending"
          /\ queue[k].attempts = 0

\* C16: every job follows pending -> in_progress -> {sent | failed}: the
\* status is one of the four values, a job is created pending, only a claim
\* moves it to in_progress (from pending), no job goes back to pending, and a
\* job becomes sent or failed only from in_progress.
C16_JobStatusMachine ==
    [][\A j \in DOMAIN queue' :
          /\ queue'[j].status \in JobStatuses
          /\ j \notin JobIds => queue'[j].status = "pending"
          /\ j \in JobIds =>
                /\ queue'[j].status = "pending" => queue[j].status = "pending"
                /\ (queue'[j].status = "in_progress" /\ queue[j].status # "in_progress")
                      => last'.op = "api_queue_next" /\ queue[j].status = "pending"
                /\ (queue'[j].status \in FinishedStatuses
                        /\ queue[j].status \notin FinishedStatuses)
                      => queue[j].status = "in_progress"]_vars

\* C17: a job that is sent or failed stays sent or failed, is returned by no
\* later claim, and keeps its attempts counter.
C17_FinishedJobNeverRetried ==
    [][\A j \in JobIds :
          (j \in DOMAIN queue' /\ queue[j].status \in FinishedStatuses)
          => /\ queue'[j].status \in FinishedStatuses
             /\ queue'[j].attempts = queue[j].attempts
             /\ (last'.op = "api_queue_next" /\ last'.result = "200") => j \notin last'.n]_vars

\* C18: a report whose status is neither sent nor failed (from an authorized
\* worker, for a known job) is answered 400 and changes no job and no
\* participant.
C18_InvalidStatusRejected ==
    [][(/\ last'.op = "api_queue_mark"
        /\ ClaimAuthorized(last'.arg.auth)
        /\ last'.arg.id \in JobIds
        /\ last'.arg.status \notin FinishedStatuses)
       => /\ last'.result = "400"
          /\ queue' = queue
          /\ players' = players]_vars

\* C19: a report for a job id that does not exist changes no job and no
\* participant, and an authorized worker is answered 404.
C19_UnknownJobNotFound ==
    [][(/\ last'.op = "api_queue_mark"
        /\ last'.arg.id \notin JobIds)
       => /\ ClaimAuthorized(last'.arg.auth) => last'.result = "404"
          /\ queue' = queue
          /\ players' = players]_vars

\* A report of failed for an id the queue does not hold was answered 404, the
\* queue holding a job in progress.
C19_Witness ==
    /\ last.op = "api_queue_mark"
    /\ last.result = "404"
    /\ last.arg.status = "failed"
    /\ last.arg.id = Len(queue) + 1
    /\ \E j \in JobIds : queue[j].status = "in_progress"

\* C20: a claim or report whose Authorization header does not present the
\* configured token is answered 401 and changes no job and no participant.
C20_UnauthorizedRejected ==
    [][(/\ last'.op \in QueueOps
        /\ ~ClaimAuthorized(last'.arg.auth))
       => /\ last'.result = "401"
          /\ queue' = queue
          /\ players' = players]_vars

\* C21: an authorized report of sent or failed on a known job is answered
\* 200 whatever the job's status was, sets the status to the reported outcome
\* and, when the outcome is failed and an error text is given, stores that
\* text in last_error; it writes nothing else of the job and no other job.
C21_ReportSetsOutcome ==
    [][(/\ last'.op = "api_queue_mark"
        /\ ClaimAuthorized(last'.arg.auth)
        /\ last'.arg.id \in JobIds
        /\ last'.arg.status \in FinishedStatuses)
       => LET j == last'.arg.id
              error == last'.arg.error
          IN  /\ last'.result = "200"
              /\ DOMAIN queue' = JobIds
              /\ queue'[j].status = last'.arg.status
              /\ (last'.arg.status = "failed" /\ error # NULL /\ error # Some(""))
                    => queue'[j].last_error = error
              /\ queue'[j].player_id = queue[j].player_id
              /\ queue'[j].attempts = queue[j].attempts
              /\ \A k \in JobIds \ {j} : queue'[k] = queue[k]]_vars

\* A report of sent was accepted on a job reported failed before, whose
\* error text is still stored: the status was overwritten.
C21_Witness ==
    /\ last.op = "api_queue_mark"
    /\ last.result = "200"
    /\ last.arg.status = "sent"
    /\ last.arg.id \in JobIds
    /\ queue[last.arg.id].status = "sent"
    /\ queue[last.arg.id].last_error = Some("timeout")
    /\ queue[last.arg.id].attempts = 1

\* C22: no lease expiry: a job in progress keeps its row and is returned by
\* no claim in every step other than an accepted report for that job (and the
\* administrator's new game, which empties the store).
C22_NoLeaseExpiry ==
    [][\A j \in JobIds :
          (/\ queue[j].status = "in_progress"
           /\ ~(/\ last'.op = "api_queue_mark"
                /\ last'.result = "200"
                /\ last'.arg.id = j)
           /\ last'.op # "admin_new_game")
          => /\ j \in DOMAIN queue'
             /\ queue'[j] = queue[j]
             /\ (last'.op = "api_queue_next" /\ last'.result = "200") => j \notin last'.n]_vars

\* A claim with limit 5 was answered while a job was in progress and another
\* pending: it returned the pending job and not the job in progress.
C22_Witness ==
    /\ last.op = "api_queue_next"
    /\ last.result = "200"
    /\ last.arg.limit = 5
    /\ last.n # {}
    /\ \E j \in JobIds \ last.n : queue[j].status = "in_progress"

\* The claims' reading of consecutive_failures: the recipient's jobs, the one
\* updated last first; jobs that share an update time may come in either
\* order, so there is one list for each order of them.
RECURSIVE ClaimRecent(_, _)
ClaimRecent(u, S) ==
    IF S = {} THEN {<<>>}
    ELSE UNION {{<<j>> \o rest : rest \in ClaimRecent(u, S \ {j})} :
                   j \in {x \in S : \A y \in S : u[x] >= u[y]}}

ClaimWindow(q, u, recipient, window) ==
    {SubSeq(recent, 1, IF window < Len(recent) THEN window ELSE Len(recent)) :
        recent \in ClaimRecent(u, {j \in DOMAIN q : q[j].player_id = Some(recipient)})}

\* The failed jobs at the head of the window: the run ends at the first job
\* that is not failed ...
RECURSIVE ClaimRun(_, _)
ClaimRun(q, w) ==
    IF w = <<>> \/ q[Head(w)].status # "failed" THEN 0
    ELSE 1 + ClaimRun(q, Tail(w))

\* ... or, a job not yet finished being passed over, at the first sent job.
RECURSIVE ClaimRunToSent(_, _)
ClaimRunToSent(q, w) ==
    IF w = <<>> \/ q[Head(w)].status = "sent" THEN 0
    ELSE (IF q[Head(w)].status = "failed" THEN 1 ELSE 0) + ClaimRunToSent(q, Tail(w))

\* C23: consecutive_failures(recipient, window) is the length of the run of
\* failed jobs at the head of the recipient's most recent window jobs, the
\* count stopping at the first sent job (under either reading of the run,
\* and for some order of the jobs that share an update time).
C23_ConsecutiveFailuresIsHeadRun ==
    last.op = "consecutive_whatsapp_failures"
    => \E w \in ClaimWindow(queue, updated_at, last.arg, last.n) :
          last.result \in {ClaimRun(queue, w), ClaimRunToSent(queue, w)}

\* C24: an accepted report of failed flags the recipient when the run of
\* failures at the head of the recipient's jobs has reached the threshold, and
\* no step flags a participant whose most recent jobs hold fewer than that
\* many consecutive failures.
C24_BreakerAtThreshold ==
    [][\A p \in PlayerIds \cap DOMAIN players' :
          LET ws == ClaimWindow(queue', updated_at', p, FailureWindow)
              reported == /\ last'.op = "api_queue_mark"
                          /\ last'.result = "200"
                          /\ last'.arg.status = "failed"
                          /\ last'.arg.id \in JobIds
                          /\ queue[last'.arg.id].player_id = Some(p)
          IN  /\ (reported /\ \A w \in ws : ClaimRun(queue', w) >= FailureThreshold)
                    => players'[p].unreachable
              /\ (~players[p].unreachable /\ players'[p].unreachable)
                    => /\ reported
                       /\ \E w \in ws : ClaimRunToSent(queue', w) >= FailureThreshold]_vars

\* C25: a participant flagged unreachable stays flagged in every step other
\* than the administrator's new game and the reset script.
C25_UnreachableSticky ==
    [][\A p \in PlayerIds :
          (/\ players[p].unreachable
           /\ last'.op \notin {"admin_new_game", "reset_unreachable_flag"})
          => p \in DOMAIN players' /\ players'[p].unreachable]_vars

\* A report of sent was accepted for a job of a flagged participant, who is
\* still flagged.
C25_Witness ==
    /\ last.op = "api_queue_mark"
    /\ last.result = "200"
    /\ last.arg.status = "sent"
    /\ last.arg.id \in JobIds
    /\ \E p \in PlayerIds :
          /\ queue[last.arg.id].player_id = Some(p)
          /\ queue[last.arg.id].status = "sent"
          /\ players[p].unreachable

\* C26: a send-link step, bulk or single, adds jobs only for participants not
\* flagged unreachable when it is called, and changes no job already queued.
C26_NoEnqueueForUnreachable ==
    [][last'.op \in {"admin_send_whatsapp_link", "admin_send_whatsapp_links"}
       => /\ JobIds \subseteq DOMAIN queue'
          /\ \A j \in JobIds : queue'[j] = queue[j]
          /\ \A j \in DOMAIN queue' \ JobIds :
                \E p \in PlayerIds : /\ queue'[j].player_id = Some(p)
                                     /\ ~players[p].unreachable]_vars

\* The bulk send-link was called with the valid number of an active, flagged
\* participant and queued nothing.
C26_Witness ==
    /\ last.op = "admin_send_whatsapp_links"
    /\ last.result = "queued"
    /\ last.n = 0
    /\ \E p \in last.arg : /\ p \in PlayerIds
                          /\ players[p].status = "active"
                          /\ players[p].unreachable

\* C27: no step deletes a job: the job ids of a state are job ids of the next.
C27_JobsNeverDeleted ==
    [][JobIds \subseteq DOMAIN queue']_vars

\* C28: decoding the token encoded for a participant id and a round id gives
\* back exactly that pair.
C28_TokenRoundTrip ==
    last.op = "parse_pick_token"
    => \A p \in TokenIds, r \in TokenIds :
          last.arg = make_pick_token(p, r) => last.result = Parsed(Some(p), Some(r), "")

\* The token of participant 2 and round 1 was decoded to (2, 1).
C28_Witness ==
    /\ last.op = "parse_pick_token"
    /\ last.arg = make_pick_token(2, 1)
    /\ last.result.player_id = Some(2)
    /\ last.result.round_id = Some(1)

\* The valid pick tokens of the claims: the texts encode gives for one-digit
\* ids.
ClaimPickTokens == {make_pick_token(p, r) : p \in 1..9, r \in 1..9}

\* C29: a text that is not a valid pick token, a valid token with one
\* character changed included, makes the decoder fail, and the pick route then
\* answers 'invalid or expired link' and creates no pick.
C29_InvalidTokenRefused ==
    /\ [](/\ (last.op = "parse_pick_token" /\ last.arg \notin ClaimPickTokens)
                => last.result = Parsed(NULL, NULL, "")
          /\ (last.op = "pick_with_token_link" /\ last.arg \notin ClaimPickTokens)
                => last.result = "InvalidLink")
    /\ [][~(last'.op = "pick_with_token_link" /\ last'.arg \notin ClaimPickTokens)]_picks

\* C30: a my-picks token is refused by the pick decoder and the pick route,
\* and a pick token by the my-picks decoder and the my-picks route.
C30_TokensDomainSeparated ==
    /\ (last.op = "parse_pick_token" /\ last.arg \in IssuedMyPicksTokens)
          => last.result = Parsed(NULL, NULL, "")
    /\ (last.op = "parse_my_picks_token" /\ last.arg \in IssuedPickTokens)
          => last.result = Parsed(NULL, NULL, "")
    /\ (last.op = "pick_with_token_link" /\ last.arg \in IssuedMyPicksTokens)
          => last.result = "InvalidLink"
    /\ (last.op = "my_picks" /\ last.arg \in IssuedPickTokens)
          => last.result = "InvalidLink"

\* The my-picks route was opened with the pick token of player 1, who exists,
\* and answered that the link is invalid.
C30_Witness ==
    /\ last.op = "my_picks"
    /\ last.arg = make_pick_token(1, 1)
    /\ last.result = "InvalidLink"
    /\ 1 \in PlayerIds

\* C31: no two rounds share a round number, whatever rounds were created by
\* admin_create_round and admin_create_next_round.
C31_RoundNumbersUnique ==
    \A r1 \in RoundIds, r2 \in RoundIds :
        r1 # r2 => rounds[r1].round_number # rounds[r2].round_number

\* C38: at most one round is open at any time, whatever rounds were created
\* and closed.
C38_AtMostOneOpenRound == Cardinality({r \in RoundIds : rounds[r].status = "open"}) <= 1

\* C32: a participant's status becomes eliminated only in the closing of a
\* round and active again only in an administrative reset, and the unreachable
\* flag changes only in a worker's report or an administrative reset; every
\* other operation leaves both fields as they are.
C32_StatusAndFlagWriters ==
    [][\A p \in PlayerIds \cap DOMAIN players' :
          /\ players'[p].status # players[p].status
                => \/ players'[p].status = "eliminated" /\ last'.op \in CloseOps
                   \/ /\ players'[p].status = "active"
                      /\ last'.op \in {"admin_reset_game", "admin_new_game"}
          /\ players'[p].unreachable # players[p].unreachable
                => last'.op \in {"api_queue_mark", "admin_new_game",
                                 "reset_unreachable_flag"}]_vars

\* C34: in every state each pick judged lost (is_winner false) belongs to a
\* participant whose status is eliminated, and a pick's is_eliminated flag is
\* true exactly when its is_winner is false.
C34_LostPickMeansEliminated ==
    \A i \in PickIds :
        /\ picks[i].is_winner = Some(FALSE)
              => /\ picks[i].player_id \in PlayerIds
                 /\ players[picks[i].player_id].status = "eliminated"
        /\ picks[i].is_eliminated <=> picks[i].is_winner = Some(FALSE)

\* A round was processed and left a lost pick, flagged, of an eliminated
\* participant.
C34_Witness ==
    /\ last.op \in CloseOps
    /\ last.result = "processed"
    /\ \E i \in PickIds :
          /\ picks[i].is_winner = Some(FALSE)
          /\ picks[i].is_eliminated
          /\ players[picks[i].player_id].status = "eliminated"

\* C35: the closing of a round changes the status only of participants who own
\* a pick of that round that this pass judged lost, and only to eliminated; an
\* active participant without a pick in the round is active afterwards.
C35_CloseEliminatesOnlyLosers ==
    [][last'.op \in CloseOps
       => \A p \in PlayerIds :
             /\ p \in DOMAIN players'
             /\ players'[p].status # players[p].status
                   => /\ players'[p].status = "eliminated"
                      /\ \E i \in PickIds :
                            /\ picks[i].player_id = p
                            /\ picks[i].round_id = last'.arg
                            /\ picks[i].is_winner = NULL
                            /\ picks'[i].is_winner = Some(FALSE)
             /\ (/\ players[p].status = "active"
                 /\ ~\E i \in PickIds : picks[i].player_id = p /\ picks[i].round_id = last'.arg)
                   => players'[p].status = "active"]_vars

\* A round was closed with one loser, who is eliminated, while another
\* participant, without a pick in that round, is active.
C35_Witness ==
    /\ last.op \in CloseOps
    /\ last.result = "processed"
    /\ last.n = 1
    /\ \E q \in PlayerIds :
          /\ players[q].status = "eliminated"
          /\ \E i \in PickIds : /\ picks[i].player_id = q
                                /\ picks[i].round_id = last.arg
                                /\ picks[i].is_winner = Some(FALSE)
    /\ \E p \in PlayerIds :
          /\ players[p].status = "active"
          /\ ~\E i \in PickIds : picks[i].player_id = p /\ picks[i].round_id = last.arg

\* The workers that have been started.
Started == {w \in Workers : reqs[w].pc \notin {"idle", "flash"}}

\* C33: a worker that has exited after a shutdown signal has finished the
\* batch it had claimed: none of the jobs it received is left unprocessed in
\* status in_progress.
C33_ShutdownFinishesClaim ==
    \A w \in Started :
        reqs[w].pc = "exit"
        => \A k \in 1..Len(reqs[w].jobs) :
              ~(/\ reqs[w].jobs[k] \in JobIds
                /\ queue[reqs[w].jobs[k]].status = "in_progress")

\* C37: across all workers each job's message is handed to the sender at most
\* once (every handing-over is followed by exactly one report, sent on success
\* and failed otherwise): no job is among the jobs handed over by two workers.
C37_AtMostOnceDelivery ==
    \A w1 \in Started, w2 \in Started :
        w1 # w2 => reqs[w1].handed \cap reqs[w2].handed = {}

\* C36: while a worker keeps polling, the API answers, every report arrives
\* and no further job is queued, every pending job is eventually claimed and
\* reaches sent or failed.
C36_PendingEventuallyFinished ==
    \A j \in 1..MaxWorkerJobs :
        (j \in JobIds /\ queue[j].status = "pending")
            ~> (j \in JobIds /\ queue[j].status \in {"sent", "failed"})

\* C39: every job the send-link operations add to the queue is pending with
\* attempts 0 and is for a participant who is active at that moment, an open
\* round existing (the participant's number and the token of the message are
\* not part of the stored state of the model).
C39_EnqueuedJobsWellFormed ==
    [][\A j \in DOMAIN queue' \ DOMAIN queue :
          /\ queue'[j].status = "pending"
          /\ queue'[j].attempts = 0
          /\ queue'[j].player_id # NULL
          /\ Val(queue'[j].player_id) \in PlayerIds
          /\ players[Val(queue'[j].player_id)].status = "active"
          /\ current_round # NULL]_queue

\* C40: a pick of participant P in round R is created only by a request that
\* carries a pick token decoding to (P, R): every step that adds a pick is a
\* token submission for that pick's participant and round.
C40_PickOnlyByToken ==
    [][\A i \in DOMAIN picks' \ DOMAIN picks :
          /\ last'.op = "pick_with_token"
          /\ last'.arg = picks'[i].round_id
          /\ last'.n = picks'[i].player_id]_picks
====
